---- MODULE Spec2Model ----
(***************************************************************************)
(* Model of the alignment reconciliation codec (SAM.ipynb: cigarToList,    *)
(* mdzToList, cigarMdzToStacked, cigarize) and of the indexed sequence     *)
(* store (Fasta.ipynb: parse_fasta, index_fasta, FastaIndexed).            *)
(*                                                                         *)
(* A Python string is a sequence of one-character strings.  A call that    *)
(* returns v is the record Return(v); a call that raises exception class e *)
(* is the record Raise(e) and carries no value.                            *)
(***************************************************************************)
EXTENDS Integers, Sequences, FiniteSets, TLC

\* ------------------------------------------------------------------ bounds
\* Largest number of CIGAR operations in an input CIGAR string.
MaxOps == 2
\* Largest number of tokens (count, letter or ^letter) in an input MD:Z string.
MaxMdToks == 2
\* Largest length of an input read sequence.
MaxSeqLen == 3
\* Largest length of a raw string handed to cigarToList on its own.
MaxCigarLen == 4
\* Largest length of a pair of tracks handed to cigarize on its own.
MaxTrackLen == 3
\* Longest raw string handed to mdzToList alone.
MaxMdLen == 5
\* Longest FASTA record (nucleotides) and widest data line of a generated file.
MaxRecLen == 5
MaxWidth == 3
\* Most lines of a file handed to index_fasta alone.
MaxFaLines == 4
\* Longest run of one repeated column in a pair of tracks handed to cigarize.
MaxLongRun == 11
\* Longest record of a file read by two concurrent callers, and the largest
\* start and length they ask for.
MaxConcLen == 3
\* Longest record of a file read by one caller several times, and the most get
\* calls that caller makes.
MaxHistLen == 2
MaxGets == 3
\* Longest raw string handed to a decoder run one iteration at a time, and the
\* most operations and MD:Z entries of a cigarMdzToStacked call run that way.
MaxLoopLen == 3
MaxLoopItems == 2

\* --------------------------------------------------------- Python helpers
Return(v) == [exc |-> "none", val |-> v]
Raise(e) == [exc |-> e]
Ok(r) == r.exc = "none"

Min(a, b) == IF a < b THEN a ELSE b
Max(a, b) == IF a < b THEN b ELSE a

Digits == {"0", "1", "2", "3", "4", "5", "6", "7", "8", "9"}
DigitChars == <<"0", "1", "2", "3", "4", "5", "6", "7", "8", "9">>
UpperLetters == {"A", "C", "G", "T", "N", "M", "X", "I", "D", "S", "H", "P", "Z"}
LowerLetters == {"a", "c", "g", "t", "n", "m", "x", "i", "d", "s", "h", "p", "z"}

\* str.isdigit() and str.isalpha() on one character.
isdigit(c) == c \in Digits
isalpha(c) == c \in UpperLetters \cup LowerLetters

\* int(c) for a digit character c.
int(c) == CHOOSE d \in 0..9 : DigitChars[d + 1] = c

\* str(n) for an integer n >= 0.
RECURSIVE str(_)
str(n) == IF n < 10 THEN <<DigitChars[n + 1]>>
          ELSE str(n \div 10) \o <<DigitChars[(n % 10) + 1]>>

\* c.lower() for one character.
lowerChar(c) ==
    CASE c = "A" -> "a" [] c = "C" -> "c" [] c = "G" -> "g" [] c = "T" -> "t"
      [] c = "N" -> "n" [] c = "M" -> "m" [] c = "X" -> "x" [] c = "I" -> "i"
      [] c = "D" -> "d" [] c = "S" -> "s" [] c = "H" -> "h" [] c = "P" -> "p"
      [] c = "Z" -> "z" [] OTHER -> c
lower(s) == [k \in 1..Len(s) |-> lowerChar(s[k])]

\* s[a:b] for 0 <= a <= b: a Python slice never fails, it is cut to the string.
Slice(s, a, b) == SubSeq(s, Min(a, Len(s)) + 1, Min(b, Len(s)))

\* c * n: the character c repeated n times.
Repeat(c, n) == [k \in 1..n |-> c]

\* All strings over alphabet S of length at most n.
RECURSIVE StringsUpTo(_, _)
StringsUpTo(S, n) ==
    IF n = 0 THEN {<<>>}
    ELSE LET shorter == StringsUpTo(S, n - 1)
         IN  shorter \cup {Append(s, c) : s \in shorter, c \in S}

\* The concatenation of a sequence of strings.
RECURSIVE Concat(_)
Concat(ss) == IF ss = <<>> THEN <<>> ELSE Head(ss) \o Concat(Tail(ss))

\* ------------------------------------------------------------ cigarToList
OpLetters == {"M", "=", "X", "I", "D", "N", "S", "H", "P"}

op_map(c) ==
    CASE c \in {"M", "=", "X"} -> 0
      [] c = "I" -> 1
      [] c = "D" -> 2
      [] c = "N" -> 3
      [] c = "S" -> 4
      [] c = "H" -> 5
      [] c = "P" -> 6

\* Mutant of cigarRunLoop: `run *= 10` left out.
RECURSIVE cigarRunLoop_NoShift(_, _, _)
cigarRunLoop_NoShift(cigar, i, run) ==
    IF i < Len(cigar) /\ isdigit(cigar[i + 1])
    THEN cigarRunLoop_NoShift(cigar, i + 1, run + int(cigar[i + 1]))
    ELSE <<i, run>>

\* The inner loop: one more digit of the run length while there is one.
\* i is the 0-based index of the code; yields <<i, run>> at loop exit.
RECURSIVE cigarRunLoop(_, _, _)
cigarRunLoop(cigar, i, run) ==
    IF i < Len(cigar) /\ isdigit(cigar[i + 1])
    THEN cigarRunLoop(cigar, i + 1, run * 10 + int(cigar[i + 1]))
    ELSE <<i, run>>

\* Mutant of cigarLoop: digits at the end of the string are dropped instead of
\* failing `assert i < len(cigar)`, and any character is taken for an operation.
RECURSIVE cigarLoop_NoAsserts(_, _, _)
cigarLoop_NoAsserts(cigar, i, ret) ==
    IF ~(i < Len(cigar)) THEN Return(ret)
    ELSE LET r == cigarRunLoop(cigar, i, 0)
             j == r[1]
             run == r[2]
         IN  IF ~(j < Len(cigar)) THEN Return(ret)
             ELSE cigarLoop_NoAsserts(cigar, j + 1,
                    Append(ret, <<IF cigar[j + 1] \in OpLetters
                                  THEN op_map(cigar[j + 1]) ELSE 0, run>>))

\* The outer loop from index i with the list ret built so far.
RECURSIVE cigarLoop(_, _, _)
cigarLoop(cigar, i, ret) ==
    IF ~(i < Len(cigar)) THEN Return(ret)
    ELSE LET r == cigarRunLoop(cigar, i, 0)
             j == r[1]
             run == r[2]
         IN  IF ~(j < Len(cigar)) THEN Raise("AssertionError")
             ELSE IF cigar[j + 1] \notin OpLetters THEN Raise("AssertionError")
             ELSE cigarLoop(cigar, j + 1, Append(ret, <<op_map(cigar[j + 1]), run>>))

cigarToList(cigar) == cigarLoop(cigar, 0, <<>>)

\* One iteration of the outer loop at index i < len(cigar): the failure if an
\* assert fails, the index and the list after it.
cigarIter(cigar, i, ret) ==
    LET r == cigarRunLoop(cigar, i, 0)
        j == r[1]
        run == r[2]
    IN  IF ~(j < Len(cigar)) THEN [exc |-> "AssertionError", i |-> j, ret |-> ret]
        ELSE IF cigar[j + 1] \notin OpLetters
             THEN [exc |-> "AssertionError", i |-> j + 1, ret |-> ret]
        ELSE [exc |-> "none", i |-> j + 1,
              ret |-> Append(ret, <<op_map(cigar[j + 1]), run>>)]

\* -------------------------------------------------------------- mdzToList
\* The digit loop of a stretch of matches; yields <<i, run>>.
RECURSIVE mdzDigitLoop(_, _, _)
mdzDigitLoop(md, i, run) ==
    IF i < Len(md) /\ isdigit(md[i + 1])
    THEN mdzDigitLoop(md, i + 1, run * 10 + int(md[i + 1]))
    ELSE <<i, run>>

\* The letter loop of a stretch of mismatches or of a read gap; yields <<i, str>>.
RECURSIVE mdzAlphaLoop(_, _, _)
mdzAlphaLoop(md, i, acc) ==
    IF i < Len(md) /\ isalpha(md[i + 1])
    THEN mdzAlphaLoop(md, i + 1, Append(acc, md[i + 1]))
    ELSE <<i, acc>>

\* Mutant of mdzLoop: a digit run of value zero is given an entry too.
RECURSIVE mdzLoop_KeepZero(_, _, _)
mdzLoop_KeepZero(md, i, ret) ==
    IF ~(i < Len(md)) THEN Return(ret)
    ELSE IF isdigit(md[i + 1]) THEN
             LET r == mdzDigitLoop(md, i, 0)
             IN  mdzLoop_KeepZero(md, r[1], Append(ret, <<0, r[2], <<>> >>))
    ELSE IF isalpha(md[i + 1]) THEN
             LET r == mdzAlphaLoop(md, i, <<>>)
             IN  IF ~(Len(r[2]) > 0) THEN Raise("AssertionError")
                 ELSE mdzLoop_KeepZero(md, r[1], Append(ret, <<1, Len(r[2]), r[2]>>))
    ELSE IF md[i + 1] = "^" THEN
             LET r == mdzAlphaLoop(md, i + 1, <<>>)
             IN  IF ~(Len(r[2]) > 0) THEN Raise("AssertionError")
                 ELSE mdzLoop_KeepZero(md, r[1], Append(ret, <<2, Len(r[2]), r[2]>>))
    ELSE Raise("TypeError")

\* The outer while loop of mdzToList from position i, ret being the list so far.
RECURSIVE mdzLoop(_, _, _)
mdzLoop(md, i, ret) ==
    IF ~(i < Len(md)) THEN Return(ret)
    ELSE IF isdigit(md[i + 1]) THEN
             LET r == mdzDigitLoop(md, i, 0)
             IN  mdzLoop(md, r[1],
                         IF r[2] > 0 THEN Append(ret, <<0, r[2], <<>> >>) ELSE ret)
    ELSE IF isalpha(md[i + 1]) THEN
             LET r == mdzAlphaLoop(md, i, <<>>)
             IN  IF ~(Len(r[2]) > 0) THEN Raise("AssertionError")
                 ELSE mdzLoop(md, r[1], Append(ret, <<1, Len(r[2]), r[2]>>))
    ELSE IF md[i + 1] = "^" THEN
             LET r == mdzAlphaLoop(md, i + 1, <<>>)
             IN  IF ~(Len(r[2]) > 0) THEN Raise("AssertionError")
                 ELSE mdzLoop(md, r[1], Append(ret, <<2, Len(r[2]), r[2]>>))
    \* '"%d"' % md[i] formats a string with %d: the raise statement itself
    \* raises TypeError before RuntimeError is constructed.
    ELSE Raise("TypeError")

mdzToList(md) == mdzLoop(md, 0, <<>>)

\* One iteration of the outer loop at index i < len(md).
mdzIter(md, i, ret) ==
    IF isdigit(md[i + 1]) THEN
        LET r == mdzDigitLoop(md, i, 0)
        IN  [exc |-> "none", i |-> r[1],
             ret |-> IF r[2] > 0 THEN Append(ret, <<0, r[2], <<>> >>) ELSE ret]
    ELSE IF isalpha(md[i + 1]) THEN
        LET r == mdzAlphaLoop(md, i, <<>>)
        IN  IF ~(Len(r[2]) > 0) THEN [exc |-> "AssertionError", i |-> r[1], ret |-> ret]
            ELSE [exc |-> "none", i |-> r[1],
                  ret |-> Append(ret, <<1, Len(r[2]), r[2]>>)]
    ELSE IF md[i + 1] = "^" THEN
        LET r == mdzAlphaLoop(md, i + 1, <<>>)
        IN  IF ~(Len(r[2]) > 0) THEN [exc |-> "AssertionError", i |-> r[1], ret |-> ret]
            ELSE [exc |-> "none", i |-> r[1],
                  ret |-> Append(ret, <<2, Len(r[2]), r[2]>>)]
    ELSE [exc |-> "TypeError", i |-> i, ret |-> ret]

\* ------------------------------------------------------ cigarMdzToStacked
\* The local state of one call: the list mdp (a shallow copy of mdp_orig: a new
\* outer list holding the SAME inner [op, run, str] lists), the cursors mdo and
\* rdoff, the tracks rds and rfs (the lists of pieces, kept joined), and the
\* exception raised, if any.
StackStart(mdp_orig_) ==
    [mdp |-> mdp_orig_, mdo |-> 0, rdoff |-> 0, rds |-> <<>>, rfs |-> <<>>,
     exc |-> "none"]

StackFail(st, e) == [st EXCEPT !.exc = e]

\* The while loop of CIGAR op M, = or X, with runleft still to cover.
RECURSIVE stackMatchLoop(_, _, _)
stackMatchLoop(seq_, st, runleft) ==
    IF ~(runleft > 0 /\ st.mdo < Len(st.mdp)) THEN st
    ELSE LET e == st.mdp[st.mdo + 1]
             op_m == e[1]
             run_m == e[2]
             st_m == e[3]
             run_comb == Min(runleft, run_m)
             rd == Slice(seq_, st.rdoff, st.rdoff + run_comb)
         IN  IF ~(op_m = 0 \/ op_m = 1) THEN StackFail(st, "AssertionError")
             ELSE IF op_m # 0 /\ ~(Len(st_m) = run_comb)
                  THEN StackFail(st, "AssertionError")
             ELSE IF run_comb < run_m /\ ~(op_m = 0)
                  THEN StackFail(st, "AssertionError")
             ELSE stackMatchLoop(seq_,
                    [st EXCEPT !.rds = @ \o rd,
                               !.rfs = @ \o (IF op_m = 0 THEN rd ELSE st_m),
                               !.rdoff = @ + run_comb,
                               !.mdp = IF run_comb < run_m
                                       THEN [@ EXCEPT ![st.mdo + 1][2] = @ - run_comb]
                                       ELSE @,
                               !.mdo = IF run_comb < run_m THEN @ ELSE @ + 1],
                    runleft - run_comb)

\* Mutant of stackMatchIter: the cursor stays on an entry nothing was taken of.
stackMatchIter_StaysOnZero(seq_, st, runleft) ==
    LET e == st.mdp[st.mdo + 1]
        run_comb == Min(runleft, e[2])
        rd == Slice(seq_, st.rdoff, st.rdoff + run_comb)
    IN  IF ~(e[1] = 0 \/ e[1] = 1) THEN [st |-> StackFail(st, "AssertionError"),
                                         runleft |-> runleft - run_comb]
        ELSE [st |-> [st EXCEPT !.rds = @ \o rd,
                                !.rfs = @ \o (IF e[1] = 0 THEN rd ELSE e[3]),
                                !.rdoff = @ + run_comb,
                                !.mdo = IF run_comb = 0 THEN @ ELSE @ + 1],
              runleft |-> runleft - run_comb]

\* One iteration of the while loop of CIGAR op M, = or X, entered with
\* runleft > 0 and mdo < len(mdp): the state and runleft after it.
stackMatchIter(seq_, st, runleft) ==
    LET e == st.mdp[st.mdo + 1]
        op_m == e[1]
        run_m == e[2]
        st_m == e[3]
        run_comb == Min(runleft, run_m)
        rd == Slice(seq_, st.rdoff, st.rdoff + run_comb)
    IN  IF ~(op_m = 0 \/ op_m = 1)
        THEN [st |-> StackFail(st, "AssertionError"), runleft |-> runleft - run_comb]
        ELSE IF op_m # 0 /\ ~(Len(st_m) = run_comb)
        THEN [st |-> StackFail(st, "AssertionError"), runleft |-> runleft - run_comb]
        ELSE IF run_comb < run_m /\ ~(op_m = 0)
        THEN [st |-> StackFail(st, "AssertionError"), runleft |-> runleft - run_comb]
        ELSE [st |-> [st EXCEPT !.rds = @ \o rd,
                                !.rfs = @ \o (IF op_m = 0 THEN rd ELSE st_m),
                                !.rdoff = @ + run_comb,
                                !.mdp = IF run_comb < run_m
                                        THEN [@ EXCEPT ![st.mdo + 1][2] = @ - run_comb]
                                        ELSE @,
                                !.mdo = IF run_comb < run_m THEN @ ELSE @ + 1],
              runleft |-> runleft - run_comb]

\* Mutant of stackOp: a deletion accepts a deletion entry of any run length.
stackOp_DeletionAnyRun(seq_, st, c) ==
    LET op == c[1]
        run == c[2]
        skipping == (op = 4 \/ op = 5)
    IN  IF ~(skipping \/ st.mdo < Len(st.mdp)) THEN StackFail(st, "AssertionError")
        ELSE CASE op = 0 -> stackMatchLoop(seq_, st, run)
               [] op = 1 ->
                    [st EXCEPT !.rds = @ \o Slice(seq_, st.rdoff, st.rdoff + run),
                               !.rfs = @ \o Repeat("-", run),
                               !.rdoff = @ + run]
               [] op = 2 ->
                    LET e == st.mdp[st.mdo + 1]
                    IN  IF ~(e[1] = 2) THEN StackFail(st, "AssertionError")
                        ELSE [st EXCEPT !.mdo = @ + 1,
                                        !.rds = @ \o Repeat("-", run),
                                        !.rfs = @ \o e[3]]
               [] op = 3 ->
                    [st EXCEPT !.rds = @ \o Repeat("-", run),
                               !.rfs = @ \o Repeat("-", run)]
               [] op = 4 ->
                    [st EXCEPT !.rds = @ \o lower(Slice(seq_, st.rdoff, st.rdoff + run)),
                               !.rfs = @ \o Repeat(" ", run),
                               !.rdoff = @ + run]
               [] op = 5 ->
                    [st EXCEPT !.rds = @ \o Repeat("!", run),
                               !.rfs = @ \o Repeat(" ", run)]
               [] op = 6 -> StackFail(st, "RuntimeError")
               [] OTHER -> StackFail(st, "RuntimeError")

\* The body of `for c in cgp` for one CIGAR operation c = [op, run].
stackOp(seq_, st, c) ==
    LET op == c[1]
        run == c[2]
        skipping == (op = 4 \/ op = 5)
    IN  IF ~(skipping \/ st.mdo < Len(st.mdp)) THEN StackFail(st, "AssertionError")
        ELSE CASE op = 0 -> stackMatchLoop(seq_, st, run)
               [] op = 1 ->
                    [st EXCEPT !.rds = @ \o Slice(seq_, st.rdoff, st.rdoff + run),
                               !.rfs = @ \o Repeat("-", run),
                               !.rdoff = @ + run]
               [] op = 2 ->
                    LET e == st.mdp[st.mdo + 1]
                    IN  IF ~(e[1] = 2) THEN StackFail(st, "AssertionError")
                        ELSE IF ~(run = e[2]) THEN StackFail(st, "AssertionError")
                        ELSE IF ~(Len(e[3]) = run) THEN StackFail(st, "AssertionError")
                        ELSE [st EXCEPT !.mdo = @ + 1,
                                        !.rds = @ \o Repeat("-", run),
                                        !.rfs = @ \o e[3]]
               [] op = 3 ->
                    [st EXCEPT !.rds = @ \o Repeat("-", run),
                               !.rfs = @ \o Repeat("-", run)]
               [] op = 4 ->
                    [st EXCEPT !.rds = @ \o lower(Slice(seq_, st.rdoff, st.rdoff + run)),
                               !.rfs = @ \o Repeat(" ", run),
                               !.rdoff = @ + run]
               [] op = 5 ->
                    [st EXCEPT !.rds = @ \o Repeat("!", run),
                               !.rfs = @ \o Repeat(" ", run)]
               [] op = 6 -> StackFail(st, "RuntimeError")
               [] OTHER -> StackFail(st, "RuntimeError")

\* Mutant of stackReturn: the final assert left out.
stackReturn_NoFinalAssert(st) == Return(<<st.rds, st.rfs>>)

\* After the for loop: the final assert and the return of the joined tracks.
stackReturn(st) ==
    IF ~(st.mdo = Len(st.mdp)) THEN Raise("AssertionError")
    ELSE Return(<<st.rds, st.rfs>>)

\* --------------------------------------------------------------- cigarize
\* Mutant of cigarizeClass: the gap tests made before the clip test.
cigarizeClass_ClipLast(rds_, rfs_, i) ==
    IF rds_[i] = "-" /\ rfs_[i] = "-" THEN "N"
    ELSE IF rds_[i] = "-" THEN "D"
    ELSE IF rfs_[i] = "-" THEN "I"
    ELSE IF rfs_[i] = " " THEN "S"
    ELSE IF rds_[i] # rfs_[i] THEN "X"
    ELSE "="

\* The classification of position i (1-based here) of the two tracks.
cigarizeClass(rds_, rfs_, i) ==
    IF rfs_[i] = " " THEN "S"
    ELSE IF rds_[i] = "-" /\ rfs_[i] = "-" THEN "N"
    ELSE IF rds_[i] = "-" THEN "D"
    ELSE IF rfs_[i] = "-" THEN "I"
    ELSE IF rds_[i] # rfs_[i] THEN "X"
    ELSE "="

\* Mutant of cigarizeLoop: every position becomes a run of its own.
RECURSIVE cigarizeLoop_NoCoalesce(_, _, _, _, _, _)
cigarizeLoop_NoCoalesce(rds_, rfs_, i, oplist, lastc, cnt) ==
    IF i > Len(rds_) THEN Return(oplist)
    ELSE IF i > Len(rfs_) THEN Raise("IndexError")
    ELSE cigarizeLoop_NoCoalesce(rds_, rfs_, i + 1,
            Append(oplist, <<cigarizeClass(rds_, rfs_, i), 1>>), lastc, cnt)

\* The for loop from position i with the open run (lastc, cnt); lastc = ""
\* is the empty string the code starts from.
RECURSIVE cigarizeLoop(_, _, _, _, _, _)
cigarizeLoop(rds_, rfs_, i, oplist, lastc, cnt) ==
    IF i > Len(rds_)
    THEN Return(IF lastc # "" THEN Append(oplist, <<lastc, cnt>>) ELSE oplist)
    ELSE IF i > Len(rfs_) THEN Raise("IndexError")
    ELSE LET c == cigarizeClass(rds_, rfs_, i)
         IN  IF c = lastc
             THEN cigarizeLoop(rds_, rfs_, i + 1, oplist, lastc, cnt + 1)
             ELSE cigarizeLoop(rds_, rfs_, i + 1,
                               IF lastc # "" THEN Append(oplist, <<lastc, cnt>>)
                               ELSE oplist,
                               c, 1)

\* ''.join(str(x[1]) + x[0] for x in oplist)
RECURSIVE cigarizeJoin(_)
cigarizeJoin(oplist) ==
    IF oplist = <<>> THEN <<>>
    ELSE str(Head(oplist)[2]) \o <<Head(oplist)[1]>> \o cigarizeJoin(Tail(oplist))

cigarize(rds_, rfs_) ==
    LET r == cigarizeLoop(rds_, rfs_, 1, <<>>, "", 0)
    IN  IF Ok(r) THEN Return(cigarizeJoin(r.val)) ELSE r

\* ----------------------------------------------------------- Fasta.ipynb
Whitespace == {" ", "\n", "\t", "\r"}

\* The lines a text file handle iterates over: each ends with its "\n", the
\* last one only if the file does.
RECURSIVE SplitLines(_)
SplitLines(t) ==
    IF t = <<>> THEN <<>>
    ELSE LET nl == {k \in 1..Len(t) : t[k] = "\n"}
         IN  IF nl = {} THEN <<t>>
             ELSE LET k == CHOOSE x \in nl : \A y \in nl : x <= y
                  IN  <<SubSeq(t, 1, k)>> \o SplitLines(SubSeq(t, k + 1, Len(t)))

\* s.rstrip()
RECURSIVE rstrip(_)
rstrip(s) ==
    IF s # <<>> /\ s[Len(s)] \in Whitespace THEN rstrip(SubSeq(s, 1, Len(s) - 1))
    ELSE s

\* s.lstrip()
RECURSIVE lstrip(_)
lstrip(s) ==
    IF s # <<>> /\ s[1] \in Whitespace THEN lstrip(Tail(s)) ELSE s

\* s.split(): the maximal stretches of non-whitespace characters.
RECURSIVE split(_)
split(s) ==
    LET t == lstrip(s)
    IN  IF t = <<>> THEN <<>>
        ELSE LET ws == {k \in 1..Len(t) : t[k] \in Whitespace}
                 k == IF ws = {} THEN Len(t) + 1
                      ELSE CHOOSE x \in ws : \A y \in ws : x <= y
             IN  <<SubSeq(t, 1, k - 1)>> \o split(SubSeq(t, k, Len(t)))

\* int(s) for a string of decimal digits.
RECURSIVE intLoop(_, _)
intLoop(s, acc) ==
    IF s = <<>> THEN acc ELSE intLoop(Tail(s), acc * 10 + int(Head(s)))
intStr(s) == intLoop(s, 0)

\* re.sub(r'\s+', '', s)
removeWs(s) == SelectSeq(s, LAMBDA c : c \notin Whitespace)

\* sep.join(ss)
RECURSIVE join(_, _)
join(sep, ss) ==
    IF ss = <<>> THEN <<>>
    ELSE IF Len(ss) = 1 THEN Head(ss)
    ELSE Head(ss) \o sep \o join(sep, Tail(ss))

\* parse_fasta: the dictionary fa as a function from short names to lists of
\* stripped lines, then joined.  cur.open is `current_short_name is not None`.
RECURSIVE parseFastaLoop(_, _, _)
parseFastaLoop(lines, dict, cur) ==
    IF lines = <<>> THEN Return([n \in DOMAIN dict |-> Concat(dict[n])])
    ELSE LET ln == Head(lines)
         IN  IF ln[1] = ">"
             THEN LET toks == split(rstrip(Tail(ln)))
                  IN  IF toks = <<>> THEN Raise("IndexError")
                      ELSE parseFastaLoop(Tail(lines),
                             [n \in DOMAIN dict \cup {toks[1]} |->
                                 IF n = toks[1] THEN <<>> ELSE dict[n]],
                             [open |-> TRUE, name |-> toks[1]])
             ELSE IF ~cur.open THEN Raise("KeyError")
             ELSE parseFastaLoop(Tail(lines),
                    [dict EXCEPT ![cur.name] = Append(@, rstrip(ln))], cur)

parse_fasta(text) ==
    parseFastaLoop(SplitLines(text), <<>>, [open |-> FALSE, name |-> <<>>])

\* index_fasta: the loop variables before the first line.
indexStart ==
    [index |-> <<>>, open |-> FALSE, current_short_name |-> <<>>,
     current_byte_offset |-> 0, running_seq_length |-> 0,
     running_byte_offset |-> 0, line_length_including_ws |-> 0,
     line_length_excluding_ws |-> 0, exc |-> "none"]

\* The tuple appended for the record that is open.
indexEntry(s) ==
    <<s.current_short_name, s.running_seq_length, s.current_byte_offset,
      s.line_length_excluding_ws, s.line_length_including_ws>>

\* Mutant of indexLine: a record's offset taken before its header line is
\* counted.
indexLine_OffsetBeforeHeader(s, ln) ==
    LET ln_stripped == rstrip(ln)
        rbo == s.running_byte_offset + Len(ln)
    IN  IF ln[1] = ">"
        THEN LET toks == split(Tail(ln_stripped))
             IN  IF toks = <<>>
                 THEN [s EXCEPT !.exc = "IndexError",
                                !.running_byte_offset = rbo,
                                !.index = IF s.open THEN Append(@, indexEntry(s)) ELSE @]
                 ELSE [s EXCEPT !.index = IF s.open THEN Append(@, indexEntry(s)) ELSE @,
                                !.open = TRUE,
                                !.current_short_name = toks[1],
                                !.current_byte_offset = s.running_byte_offset,
                                !.running_seq_length = 0,
                                !.running_byte_offset = rbo]
        ELSE [s EXCEPT !.running_byte_offset = rbo,
                       !.line_length_including_ws = Max(@, Len(ln)),
                       !.line_length_excluding_ws = Max(@, Len(ln_stripped)),
                       !.running_seq_length = @ + Len(ln_stripped)]

\* The body of `for ln in fh` for one line.
indexLine(s, ln) ==
    LET ln_stripped == rstrip(ln)
        rbo == s.running_byte_offset + Len(ln)
    IN  IF ln[1] = ">"
        THEN LET toks == split(Tail(ln_stripped))
             IN  IF toks = <<>>
                 THEN [s EXCEPT !.exc = "IndexError",
                                !.running_byte_offset = rbo,
                                !.index = IF s.open THEN Append(@, indexEntry(s)) ELSE @]
                 ELSE [s EXCEPT !.index = IF s.open THEN Append(@, indexEntry(s)) ELSE @,
                                !.open = TRUE,
                                !.current_short_name = toks[1],
                                !.current_byte_offset = rbo,
                                !.running_seq_length = 0,
                                !.running_byte_offset = rbo]
        ELSE [s EXCEPT !.running_byte_offset = rbo,
                       !.line_length_including_ws = Max(@, Len(ln)),
                       !.line_length_excluding_ws = Max(@, Len(ln_stripped)),
                       !.running_seq_length = @ + Len(ln_stripped)]

RECURSIVE indexLoop(_, _)
indexLoop(s, lines) ==
    IF lines = <<>> \/ s.exc # "none" THEN s
    ELSE indexLoop(indexLine(s, Head(lines)), Tail(lines))

index_fasta(text) ==
    LET s == indexLoop(indexStart, SplitLines(text))
    IN  IF s.exc # "none" THEN Raise(s.exc)
        ELSE Return(IF s.open THEN Append(s.index, indexEntry(s)) ELSE s.index)

\* The text of the .fai file: '\n'.join('\t'.join(map(str, x)) for x in idx)
faiText(idx) ==
    join(<<"\n">>,
         [k \in 1..Len(idx) |->
             join(<<"\t">>, <<idx[k][1], str(idx[k][2]), str(idx[k][3]),
                               str(idx[k][4]), str(idx[k][5])>>)])

\* FastaIndexed.__init__: the four maps, filled line by line from the .fai text.
readerStart == [offset |-> <<>>, lens |-> <<>>, charsPerLine |-> <<>>,
                bytesPerLine |-> <<>>, exc |-> "none"]

put(map, key, v) == [n \in DOMAIN map \cup {key} |-> IF n = key THEN v ELSE map[n]]

RECURSIVE readerLoop(_, _)
readerLoop(rd, lines) ==
    IF lines = <<>> \/ rd.exc # "none" THEN rd
    ELSE LET toks == split(rstrip(Head(lines)))
         IN  IF Len(toks) = 0 THEN readerLoop(rd, Tail(lines))
             ELSE IF ~(Len(toks) = 5) THEN [rd EXCEPT !.exc = "AssertionError"]
             ELSE readerLoop(
                    [rd EXCEPT !.offset = put(@, toks[1], intStr(toks[3])),
                               !.lens = put(@, toks[1], intStr(toks[2])),
                               !.charsPerLine = put(@, toks[1], intStr(toks[4])),
                               !.bytesPerLine = put(@, toks[1], intStr(toks[5]))],
                    Tail(lines))

FastaIndexed(fai) == readerLoop(readerStart, SplitLines(fai))

\* fh.read(n) at position pos of the file text: the characters read.
fhRead(text, pos, n) == Slice(text, pos, pos + n)

\* Mutant of fastaGet: a request that ends exactly at the end of the line is
\* read without the terminator, and the line breaks crossed are rounded up.
fastaGet_CeilBreaks(rd, text, pos, refid, start, ln) ==
    IF ~(refid \in DOMAIN rd.offset)
    THEN [result |-> Raise("AssertionError"), fhpos |-> pos, io |-> <<>>]
    ELSE IF start + ln > rd.lens[refid]
    THEN [result |-> Raise("NameError"), fhpos |-> pos, io |-> <<>>]
    ELSE LET offset == rd.offset[refid]
             charsPerLine == rd.charsPerLine[refid]
             bytesPerLine == rd.bytesPerLine[refid]
         IN  IF charsPerLine = 0
             THEN [result |-> Raise("ZeroDivisionError"), fhpos |-> pos, io |-> <<>>]
             ELSE LET into == start % charsPerLine
                      byteOff == offset + (start \div charsPerLine) * bytesPerLine + into
                      left == charsPerLine - into
                  IN  IF ln <= left
                      THEN LET res == fhRead(text, byteOff, ln)
                           IN  [result |-> Return(res),
                                fhpos |-> byteOff + Len(res),
                                io |-> << <<"seek", byteOff>>, <<"read", ln>> >>]
                      ELSE LET nbreaks == 1 + (ln - left + charsPerLine - 1) \div charsPerLine
                               n == ln + nbreaks * (bytesPerLine - charsPerLine)
                               res == fhRead(text, byteOff, n)
                           IN  [result |-> Return(removeWs(res)),
                                fhpos |-> byteOff + Len(res),
                                io |-> << <<"seek", byteOff>>, <<"read", n>> >>]

\* FastaIndexed.get(refid, start, ln) on the reader rd whose handle is at pos in
\* the file text: the result, the handle's new position and the seeks and reads
\* made.
fastaGet(rd, text, pos, refid, start, ln) ==
    IF ~(refid \in DOMAIN rd.offset)
    THEN [result |-> Raise("AssertionError"), fhpos |-> pos, io |-> <<>>]
    ELSE IF start + ln > rd.lens[refid]
    \* `raise ReferenceOOB(...)`: no such name is defined (the class is FastaOOB).
    THEN [result |-> Raise("NameError"), fhpos |-> pos, io |-> <<>>]
    ELSE LET offset == rd.offset[refid]
             charsPerLine == rd.charsPerLine[refid]
             bytesPerLine == rd.bytesPerLine[refid]
         IN  IF charsPerLine = 0
             THEN [result |-> Raise("ZeroDivisionError"), fhpos |-> pos, io |-> <<>>]
             ELSE LET into == start % charsPerLine
                      byteOff == offset + (start \div charsPerLine) * bytesPerLine + into
                      left == charsPerLine - into
                  IN  IF ln < left
                      THEN LET res == fhRead(text, byteOff, ln)
                           IN  [result |-> Return(res),
                                fhpos |-> byteOff + Len(res),
                                io |-> << <<"seek", byteOff>>, <<"read", ln>> >>]
                      ELSE LET nbreaks == 1 + (ln - left) \div charsPerLine
                               n == ln + nbreaks * (bytesPerLine - charsPerLine)
                               res == fhRead(text, byteOff, n)
                           IN  [result |-> Return(removeWs(res)),
                                fhpos |-> byteOff + Len(res),
                                io |-> << <<"seek", byteOff>>, <<"read", n>> >>]

\* The part of get before `fh.seek(byteOff)`: the two checks and the arithmetic.
\* Yields the failure, or the offset to seek to, the number of bytes to read and
\* whether the bytes read are stripped of whitespace.
getPlan(rd, refid, start, ln) ==
    IF ~(refid \in DOMAIN rd.offset)
    THEN [exc |-> "AssertionError", byteOff |-> 0, n |-> 0, strip |-> FALSE]
    ELSE IF start + ln > rd.lens[refid]
    THEN [exc |-> "NameError", byteOff |-> 0, n |-> 0, strip |-> FALSE]
    ELSE LET offset == rd.offset[refid]
             charsPerLine == rd.charsPerLine[refid]
             bytesPerLine == rd.bytesPerLine[refid]
         IN  IF charsPerLine = 0
             THEN [exc |-> "ZeroDivisionError", byteOff |-> 0, n |-> 0, strip |-> FALSE]
             ELSE LET into == start % charsPerLine
                      byteOff == offset + (start \div charsPerLine) * bytesPerLine + into
                      left == charsPerLine - into
                      nbreaks == 1 + (ln - left) \div charsPerLine
                  IN  IF ln < left
                      THEN [exc |-> "none", byteOff |-> byteOff, n |-> ln, strip |-> FALSE]
                      ELSE [exc |-> "none", byteOff |-> byteOff,
                            n |-> ln + nbreaks * (bytesPerLine - charsPerLine),
                            strip |-> TRUE]

\* The part of get from the read on: what `fh.read` gives at position pos of the
\* file text, stripped or not, is returned.
getFinish(text, pos, plan) ==
    LET res == fhRead(text, pos, plan.n)
    IN  [result |-> Return(IF plan.strip THEN removeWs(res) ELSE res),
         fhpos |-> pos + Len(res)]

\* Mutant of seekTo: the handle moves by byteOff from where it is.
seekTo_Relative(pos, byteOff) == pos + byteOff

\* `fh.seek(byteOff)` on a handle at pos: the handle's new position.
seekTo(pos, byteOff) == byteOff

\* Mutant of handleOf: every caller uses the one handle of a shared reader.
handleOf_Shared(discipline, c) == 0

\* The file handle caller c reads through: its own reader's handle when every
\* caller opened a reader of its own (`self.fafhs[fafn] = fh = open(fafn, 'r')`
\* once per reader), else handle 0 of the reader the callers share.
handleOf(discipline, c) == IF discipline = "own" THEN c ELSE 0

\* ------------------------------------------------------------------ state
VARIABLES
    pc,         \* where the driving code is: "cigar", "parse", "loop", "done", ...
    result,     \* the result of the last finished call
    seq,        \* the read sequence handed to cigarMdzToStacked
    cigar,      \* the CIGAR string
    md,         \* the MD:Z string
    tracks,     \* the pair (rds, rfs) handed to cigarize on its own
    cgp,        \* the parsed CIGAR list handed to cigarMdzToStacked
    mdp_orig,   \* the caller's parsed MD:Z list (its inner lists are shared)
    mdp_given,  \* the value of mdp_orig when the running call was made
    stk,        \* the local state of the running cigarMdzToStacked call
    ci,         \* how many CIGAR operations the for loop has processed
    call,       \* which call of cigarMdzToStacked is running (0: none yet)
    first,      \* the result of the first call, once a second one was started
    recigar,    \* cigarize of the first call's tracks (round trip)
    remd,       \* the MD:Z string written from the first call's tracks
    fa,         \* the text of the sequence file
    faidx,      \* the list index_fasta returned
    reader,     \* the maps of the FastaIndexed object
    fhpos,      \* the position of the reader's file handle
    io,         \* the seeks and reads done on the file handle, in order
    req,        \* the arguments of the get call
    ixs,        \* the loop variables of a running index_fasta call
    lno,        \* how many lines the loop of index_fasta has read
    disc,       \* how concurrent callers of get use the file handle
    thr,        \* for each concurrent caller of get: where it is in get
    hpos,       \* the position of each file handle the concurrent callers use
    ngets,      \* how many get calls a single caller has made on its reader
    dec         \* the loop variables of a decoder run one iteration at a time

ivars == <<seq, cigar, md, tracks>>
avars == <<ivars, cgp, mdp_orig, mdp_given, stk, ci, call, first,
           recigar, remd>>
fvars == <<fa, faidx, reader, fhpos, io, req>>
cvars == <<disc, thr, hpos>>
xvars == <<ixs, lno, cvars, ngets, dec>>
vars == <<pc, result, avars, fvars, xvars>>

NoResult == [exc |-> "pending"]

\* ----------------------------------------------------------------- inputs
\* The read: the first n characters of ACACAC...
ReadOf(n) == [k \in 1..n |-> IF k % 2 = 1 THEN "A" ELSE "C"]
SeqInputs == {ReadOf(n) : n \in 0..MaxSeqLen}

\* CIGAR strings: up to n (run length, letter) pairs.
CigarTokens ==
    {<<"0", "M">>, <<"1", "M">>, <<"2", "M">>, <<"1", "I">>, <<"1", "D">>,
     <<"2", "D">>, <<"1", "N">>, <<"1", "S">>, <<"1", "H">>, <<"1", "P">>}
CigarInputs(n) == {Concat(ts) : ts \in StringsUpTo(CigarTokens, n)}

\* MD:Z strings: up to n tokens, each a match count, a mismatched
\* reference base (A is also the read's base at even offsets) or a deleted one.
MdTokens == {<<"1">>, <<"2">>, <<"A">>, <<"G">>, <<"^", "T">>}
MdInputs(n) == {Concat(ts) : ts \in StringsUpTo(MdTokens, n)}

\* Raw strings for cigarToList alone: digits, operation letters and two
\* characters outside the alphabet.
RawCigarChars == {"0", "1", "2", "M", "=", "X", "I", "D", "N", "S", "H", "P", "Z", "^"}
RawCigarInputs(n) == StringsUpTo(RawCigarChars, n)

IdleStack ==
    /\ seq = <<>> /\ md = <<>> /\ cgp = <<>> /\ mdp_orig = <<>>
    /\ mdp_given = <<>> /\ stk = StackStart(<<>>) /\ ci = 0 /\ call = 0
    /\ first = NoResult /\ recigar = <<>> /\ remd = <<>>

IdleFasta ==
    /\ fa = <<>> /\ faidx = <<>> /\ reader = <<>> /\ fhpos = 0 /\ io = <<>>
    /\ req = <<>>

IdleLoops == ixs = <<>> /\ lno = 0 /\ ngets = 0 /\ dec = <<>>

IdleCallers == disc = "none" /\ thr = <<>> /\ hpos = <<>>

\* ---------------------------------------------------- cigarToList, alone
InitCigar ==
    /\ pc = "cigar"
    /\ result = NoResult
    /\ cigar \in RawCigarInputs(MaxCigarLen)
    /\ tracks = <<>>
    /\ IdleStack
    /\ IdleFasta
    /\ IdleLoops
    /\ IdleCallers

\* result = cigarToList(cigar)
CigarToListCall ==
    /\ pc = "cigar"
    /\ result' = cigarToList(cigar)
    /\ pc' = "done"
    /\ UNCHANGED <<avars, fvars>>
    /\ UNCHANGED xvars

NextCigar == CigarToListCall

SpecCigar == InitCigar /\ [][NextCigar]_vars

\* ------------------------------------------------------ mdzToList, alone
\* Raw strings for mdzToList alone: digits, upper and lower case letters, the
\* caret and one character that is none of these.
RawMdChars == {"0", "1", "2", "A", "c", "^", "*"}
RawMdInputs(n) == StringsUpTo(RawMdChars, n)

InitMdz ==
    /\ pc = "mdz"
    /\ result = NoResult
    /\ md \in RawMdInputs(MaxMdLen)
    /\ seq = <<>> /\ cigar = <<>> /\ tracks = <<>>
    /\ cgp = <<>> /\ mdp_orig = <<>> /\ mdp_given = <<>>
    /\ stk = StackStart(<<>>) /\ ci = 0 /\ call = 0
    /\ first = NoResult /\ recigar = <<>> /\ remd = <<>>
    /\ IdleFasta
    /\ IdleLoops
    /\ IdleCallers

\* result = mdzToList(md)
MdzToListCall ==
    /\ pc = "mdz"
    /\ result' = mdzToList(md)
    /\ pc' = "done"
    /\ UNCHANGED <<avars, fvars>>
    /\ UNCHANGED xvars

NextMdz == MdzToListCall

SpecMdz == InitMdz /\ [][NextMdz]_vars

\* -------------------------------------------------------- cigarize, alone
\* Pairs of tracks of equal length: bases, gaps, the hard-clip marker and the
\* blank of a clipped region.
ReadTrackChars == {"A", "C", "-", "!"}
RefTrackChars == {"A", "C", "-", " "}
TrackColumns == {<<r, f>> : r \in ReadTrackChars, f \in RefTrackChars}
TrackInputs(n) ==
    {<<[k \in 1..Len(cols) |-> cols[k][1]], [k \in 1..Len(cols) |-> cols[k][2]]>> :
        cols \in StringsUpTo(TrackColumns, n)}

\* Pairs of tracks with one column repeated up to n times, alone or followed by
\* one more column: runs long enough for a count of two digits.
LongRunInputs(n) ==
    {<<Repeat(c[1], m) \o t[1], Repeat(c[2], m) \o t[2]>> :
        c \in TrackColumns, m \in 0..n, t \in TrackInputs(1)}

InitCigarize ==
    /\ pc = "cigarize"
    /\ result = NoResult
    /\ tracks \in TrackInputs(MaxTrackLen) \cup LongRunInputs(MaxLongRun)
    /\ cigar = <<>>
    /\ IdleStack
    /\ IdleFasta
    /\ IdleLoops
    /\ IdleCallers

\* result = cigarize(rds, rfs)
CigarizeCall ==
    /\ pc = "cigarize"
    /\ result' = cigarize(tracks[1], tracks[2])
    /\ pc' = "done"
    /\ UNCHANGED <<avars, fvars>>
    /\ UNCHANGED xvars

NextCigarize == CigarizeCall

SpecCigarize == InitCigarize /\ [][NextCigarize]_vars

\* ------------------------------------- decode, then cigarMdzToStacked
InitStack ==
    /\ pc = "parse"
    /\ result = NoResult
    /\ seq \in SeqInputs
    /\ cigar \in CigarInputs(MaxOps)
    /\ md \in MdInputs(MaxMdToks)
    /\ tracks = <<>>
    /\ cgp = <<>> /\ mdp_orig = <<>> /\ mdp_given = <<>>
    /\ stk = StackStart(<<>>) /\ ci = 0 /\ call = 0
    /\ first = NoResult /\ recigar = <<>> /\ remd = <<>>
    /\ IdleFasta
    /\ IdleLoops
    /\ IdleCallers

\* cigarMdzToStacked(seq, cigarToList(cigar), mdzToList(md)): the arguments are
\* evaluated and the call starts (mdp = mdp_orig[:], the cursors at 0).
Decode ==
    /\ pc = "parse"
    /\ LET c == cigarToList(cigar)
           m == mdzToList(md)
       IN  IF Ok(c) /\ Ok(m)
           THEN /\ cgp' = c.val
                /\ mdp_orig' = m.val
                /\ mdp_given' = m.val
                /\ stk' = StackStart(m.val)
                /\ ci' = 0
                /\ call' = 1
                /\ pc' = "loop"
                /\ result' = NoResult
           ELSE /\ result' = (IF Ok(c) THEN m ELSE c)
                /\ pc' = "done"
                /\ UNCHANGED <<cgp, mdp_orig, mdp_given, stk, ci, call>>
    /\ UNCHANGED <<ivars, first, recigar, remd, fvars>>
    /\ UNCHANGED xvars

\* One iteration of `for c in cgp`.  A write to mdp[mdo][1] is a write to the
\* inner list that mdp_orig holds too, so mdp_orig follows stk.mdp.
StackStep ==
    /\ pc = "loop"
    /\ ci < Len(cgp)
    /\ LET st == stackOp(seq, stk, cgp[ci + 1])
       IN  /\ stk' = st
           /\ mdp_orig' = st.mdp
           /\ IF st.exc = "none"
              THEN /\ ci' = ci + 1
                   /\ pc' = "loop"
                   /\ result' = result
              ELSE /\ ci' = ci
                   /\ pc' = "done"
                   /\ result' = Raise(st.exc)
    /\ UNCHANGED <<ivars, cgp, mdp_given, call, first, recigar, remd, fvars>>
    /\ UNCHANGED xvars

\* The for loop is over: the final assert, then the return.
StackReturn ==
    /\ pc = "loop"
    /\ ci = Len(cgp)
    /\ result' = stackReturn(stk)
    /\ pc' = "done"
    /\ UNCHANGED <<avars, fvars>>
    /\ UNCHANGED xvars

NextStack == Decode \/ StackStep \/ StackReturn

SpecStack == InitStack /\ [][NextStack]_vars

\* ------------------ the same call made a second time with the same arguments
\* cigarMdzToStacked(seq, cgp, mdp_orig) again: the caller's three objects are
\* what the first call left of them.
CallAgain ==
    /\ pc = "done"
    /\ call = 1
    /\ first' = result
    /\ result' = NoResult
    /\ stk' = StackStart(mdp_orig)
    /\ ci' = 0
    /\ call' = 2
    /\ pc' = "loop"
    /\ UNCHANGED <<ivars, cgp, mdp_orig, mdp_given, recigar, remd, fvars>>
    /\ UNCHANGED xvars

NextAgain == Decode \/ StackStep \/ StackReturn \/ CallAgain

SpecAgain == InitStack /\ [][NextAgain]_vars

\* ------------------------------------------------------------ round trip
\* The MD:Z string written from a stacked alignment: the count of matches
\* before every mismatch, deletion run and the end; the RefTrack base at a
\* mismatch; '^' and the RefTrack bases at a run of deletions.  Positions are
\* classified as cigarize classifies them.
RECURSIVE stackedToMdzLoop(_, _, _, _, _, _)
stackedToMdzLoop(rds_, rfs_, i, out, cnt, lastc) ==
    IF i > Len(rds_) THEN out \o str(cnt)
    ELSE LET c == cigarizeClass(rds_, rfs_, i)
         IN  CASE c = "=" -> stackedToMdzLoop(rds_, rfs_, i + 1, out, cnt + 1, c)
               [] c = "X" -> stackedToMdzLoop(rds_, rfs_, i + 1,
                                 out \o str(cnt) \o <<rfs_[i]>>, 0, c)
               [] c = "D" -> stackedToMdzLoop(rds_, rfs_, i + 1,
                                 IF lastc = "D" THEN out \o <<rfs_[i]>>
                                 ELSE out \o str(cnt) \o <<"^", rfs_[i]>>, 0, c)
               [] OTHER -> stackedToMdzLoop(rds_, rfs_, i + 1, out, cnt, c)

stackedToMdz(rds_, rfs_) == stackedToMdzLoop(rds_, rfs_, 1, <<>>, 0, "")

\* c' = cigarize(A), m' = the MD:Z string of A, then
\* cigarMdzToStacked(seq, cigarToList(c'), mdzToList(m')) starts.
Reencode ==
    /\ pc = "done"
    /\ call = 1
    /\ Ok(result)
    /\ LET c == cigarize(result.val[1], result.val[2])
           m == stackedToMdz(result.val[1], result.val[2])
           cl == IF Ok(c) THEN cigarToList(c.val) ELSE c
           ml == mdzToList(m)
       IN  /\ first' = result
           /\ recigar' = (IF Ok(c) THEN c.val ELSE <<>>)
           /\ remd' = m
           /\ call' = 2
           /\ ci' = 0
           /\ IF Ok(cl) /\ Ok(ml)
              THEN /\ cgp' = cl.val
                   /\ mdp_orig' = ml.val
                   /\ mdp_given' = ml.val
                   /\ stk' = StackStart(ml.val)
                   /\ pc' = "loop"
                   /\ result' = NoResult
              ELSE /\ result' = (IF Ok(cl) THEN ml ELSE cl)
                   /\ pc' = "done"
                   /\ UNCHANGED <<cgp, mdp_orig, mdp_given, stk>>
    /\ UNCHANGED <<ivars, fvars>>
    /\ UNCHANGED xvars

NextRoundTrip == Decode \/ StackStep \/ StackReturn \/ Reencode

SpecRoundTrip == InitStack /\ [][NextRoundTrip]_vars

\* ------------------------------------------- index_fasta, FastaIndexed.get
\* The nucleotides of the generated records: record "a" reads this pattern from
\* its first character, record "b" from its fourth.
BasePattern == <<"A", "C", "G", "T", "A", "A", "C", "C", "G", "G", "T", "T">>

BaseAt(shift, p) == BasePattern[((p + shift) % Len(BasePattern)) + 1]

\* The data lines of a record of n nucleotides written w to a line.
DataText(shift, n, w) ==
    Concat([k \in 1..((n + w - 1) \div w) |->
              [j \in 1..Min(w, n - (k - 1) * w) |-> BaseAt(shift, (k - 1) * w + j - 1)]
              \o <<"\n">>])

RecordText(name, descr, shift, n, w) ==
    <<">">> \o name \o (IF descr THEN <<" ", "x">> ELSE <<>>) \o <<"\n">>
    \o DataText(shift, n, w)

RecordNames == {<<"a">>, <<"b">>}

\* FASTA files of one or two records, each with its own length and line width,
\* with or without a description on the first header and a final newline.
FastaInputs ==
    LET recA == {RecordText(<<"a">>, d, 0, n, w) :
                    d \in BOOLEAN, n \in 0..MaxRecLen, w \in 1..MaxWidth}
        recB == {<<>>} \cup {RecordText(<<"b">>, FALSE, 3, n, w) :
                    n \in 0..MaxRecLen, w \in 1..MaxWidth}
        whole == {a \o b : a \in recA, b \in recB}
    IN  whole \cup {SubSeq(t, 1, Len(t) - 1) : t \in whole}

InitFasta ==
    /\ pc = "index"
    /\ result = NoResult
    /\ fa \in FastaInputs
    /\ faidx = <<>> /\ reader = readerStart /\ fhpos = 0 /\ io = <<>> /\ req = <<>>
    /\ cigar = <<>> /\ tracks = <<>>
    /\ IdleStack
    /\ IdleLoops
    /\ IdleCallers

\* idx = index_fasta(fh); the index is written to the .fai file and the reader
\* is built from that file, its handle on the FASTA file at position 0.
IndexFasta ==
    /\ pc = "index"
    /\ LET idx == index_fasta(fa)
       IN  IF ~Ok(idx)
           THEN /\ result' = idx /\ pc' = "done"
                /\ UNCHANGED <<faidx, reader>>
           ELSE LET rd == FastaIndexed(faiText(idx.val))
                IN  /\ faidx' = idx.val
                    /\ reader' = rd
                    /\ IF rd.exc # "none"
                       THEN result' = Raise(rd.exc) /\ pc' = "done"
                       ELSE result' = result /\ pc' = "ready"
    /\ UNCHANGED <<avars, fa, fhpos, io, req>>
    /\ UNCHANGED xvars

\* result = fa_idx.get(refid, start, ln)
Get ==
    /\ pc = "ready"
    /\ \E refid \in RecordNames \cup {<<"c">>},
          start \in 0..(MaxRecLen + 1), ln \in 0..(MaxRecLen + 1) :
          LET g == fastaGet(reader, fa, fhpos, refid, start, ln)
          IN  /\ req' = <<refid, start, ln>>
              /\ result' = g.result
              /\ fhpos' = g.fhpos
              /\ io' = g.io
    /\ pc' = "done"
    /\ UNCHANGED <<avars, fa, faidx, reader>>
    /\ UNCHANGED xvars

NextFasta == IndexFasta \/ Get

SpecFasta == InitFasta /\ [][NextFasta]_vars

\* --------------------------------------------------- index_fasta, alone
\* Lines a file may hold, without their terminator: headers with and without a
\* description, with a blank after the marker and with nothing after it; data
\* lines, one with a trailing blank, one empty.
FaLines ==
    {<<">", "a">>, <<">", "b", " ", "x">>, <<">", " ", "c">>, <<">">>,
     <<"A", "C">>, <<"G", " ">>, <<"A", "C", "G">>, <<>>}

\* Files of up to n lines, the last one with or without its terminator.
RawFastaInputs(n) ==
    LET whole == {Concat([k \in 1..Len(ls) |-> ls[k] \o <<"\n">>]) :
                     ls \in StringsUpTo(FaLines, n)}
    IN  whole \cup {SubSeq(t, 1, Len(t) - 1) : t \in whole \ {<<>>}}

InitIndex ==
    /\ pc = "indexonly"
    /\ result = NoResult
    /\ fa \in RawFastaInputs(MaxFaLines)
    /\ faidx = <<>> /\ reader = readerStart /\ fhpos = 0 /\ io = <<>> /\ req = <<>>
    /\ cigar = <<>> /\ tracks = <<>>
    /\ IdleStack
    /\ IdleLoops
    /\ IdleCallers

\* idx = index_fasta(fh)
IndexFastaCall ==
    /\ pc = "indexonly"
    /\ result' = index_fasta(fa)
    /\ faidx' = (IF Ok(index_fasta(fa)) THEN index_fasta(fa).val ELSE faidx)
    /\ pc' = "done"
    /\ UNCHANGED <<avars, fa, reader, fhpos, io, req>>
    /\ UNCHANGED xvars

NextIndex == IndexFastaCall

SpecIndex == InitIndex /\ [][NextIndex]_vars

\* ------------------------------------------- index_fasta, line by line
\* Mutant of indexReturn: the record still open at the end of the input is not
\* flushed.
indexReturn_NoLastFlush(s) == Return(s.index)

\* After `for ln in fh`: the entry of the record still open is appended and the
\* list returned.
indexReturn(s) == Return(IF s.open THEN Append(s.index, indexEntry(s)) ELSE s.index)

InitIndexLines ==
    /\ pc = "indexloop"
    /\ result = NoResult
    /\ fa \in RawFastaInputs(MaxFaLines)
    /\ faidx = <<>> /\ reader = readerStart /\ fhpos = 0 /\ io = <<>> /\ req = <<>>
    /\ cigar = <<>> /\ tracks = <<>>
    /\ IdleStack
    /\ IdleCallers
    /\ ixs = indexStart
    /\ lno = 0
    /\ ngets = 0 /\ dec = <<>>

\* One iteration of `for ln in fh`.
IndexLineStep ==
    /\ pc = "indexloop"
    /\ lno < Len(SplitLines(fa))
    /\ LET s == indexLine(ixs, SplitLines(fa)[lno + 1])
       IN  /\ ixs' = s
           /\ lno' = lno + 1
           /\ IF s.exc = "none"
              THEN pc' = "indexloop" /\ result' = result
              ELSE pc' = "done" /\ result' = Raise(s.exc)
    /\ UNCHANGED <<avars, fvars, cvars, ngets, dec>>

\* The input is exhausted: the last flush and the return.
IndexReturn ==
    /\ pc = "indexloop"
    /\ lno = Len(SplitLines(fa))
    /\ result' = indexReturn(ixs)
    /\ faidx' = indexReturn(ixs).val
    /\ pc' = "done"
    /\ UNCHANGED <<avars, fa, reader, fhpos, io, req, xvars>>

NextIndexLines == IndexLineStep \/ IndexReturn

SpecIndexLines == InitIndexLines /\ [][NextIndexLines]_vars

\* ----------------------------------------------- two concurrent callers of get
Callers == {1, 2}

\* Files of two records: "a" of 1..n nucleotides written one or two to a line,
\* then "b" of n nucleotides written two to a line.
ConcFiles(n) ==
    {RecordText(<<"a">>, FALSE, 0, na, wa) \o RecordText(<<"b">>, FALSE, 3, n, 2) :
        na \in 1..n, wa \in 1..2}

\* The callers hold one reader with one handle ("shared": get as it is;
\* "atomic": each caller runs its get under a lock of its own making) or a
\* reader each ("own").  The index was built and loaded before.
InitConc ==
    /\ pc = "conc"
    /\ result = NoResult
    /\ fa \in ConcFiles(MaxConcLen)
    /\ faidx = index_fasta(fa).val
    /\ reader = FastaIndexed(faiText(index_fasta(fa).val))
    /\ fhpos = 0 /\ io = <<>> /\ req = <<>>
    /\ cigar = <<>> /\ tracks = <<>>
    /\ IdleStack
    /\ IdleLoops
    /\ disc \in {"shared", "atomic", "own"}
    /\ thr = [c \in Callers |-> [pc |-> "call", req |-> <<>>, plan |-> <<>>,
                                result |-> NoResult]]
    /\ hpos = [h \in {0} \cup Callers |-> 0]

\* Caller c enters get(refid, start, ln) and runs it up to and including
\* `fh.seek(byteOff)`; a failed check ends the call before the seek.
GetSeek(c) ==
    /\ pc = "conc"
    /\ disc # "atomic"
    /\ thr[c].pc = "call"
    /\ \E refid \in RecordNames, start \in 0..MaxConcLen, ln \in 0..MaxConcLen :
          LET p == getPlan(reader, refid, start, ln)
          IN  IF p.exc # "none"
              THEN /\ thr' = [thr EXCEPT ![c] = [pc |-> "done", req |-> <<refid, start, ln>>,
                                                 plan |-> p, result |-> Raise(p.exc)]]
                   /\ hpos' = hpos
              ELSE /\ thr' = [thr EXCEPT ![c] = [pc |-> "sought", req |-> <<refid, start, ln>>,
                                                 plan |-> p, result |-> NoResult]]
                   /\ hpos' = [hpos EXCEPT ![handleOf(disc, c)] = p.byteOff]
    /\ UNCHANGED <<pc, result, avars, fvars, ixs, lno, disc, ngets, dec>>

\* Caller c runs the rest of get: the read from wherever its handle is now, the
\* stripping and the return.
GetRead(c) ==
    /\ pc = "conc"
    /\ thr[c].pc = "sought"
    /\ LET f == getFinish(fa, hpos[handleOf(disc, c)], thr[c].plan)
       IN  /\ thr' = [thr EXCEPT ![c].pc = "done", ![c].result = f.result]
           /\ hpos' = [hpos EXCEPT ![handleOf(disc, c)] = f.fhpos]
    /\ UNCHANGED <<pc, result, avars, fvars, ixs, lno, disc, ngets, dec>>

\* Caller c runs a whole get while holding the lock: the seek and the read with
\* no step of the other caller in between.
GetLocked(c) ==
    /\ pc = "conc"
    /\ disc = "atomic"
    /\ thr[c].pc = "call"
    /\ \E refid \in RecordNames, start \in 0..MaxConcLen, ln \in 0..MaxConcLen :
          LET p == getPlan(reader, refid, start, ln)
              f == getFinish(fa, p.byteOff, p)
          IN  IF p.exc # "none"
              THEN /\ thr' = [thr EXCEPT ![c] = [pc |-> "done", req |-> <<refid, start, ln>>,
                                                 plan |-> p, result |-> Raise(p.exc)]]
                   /\ hpos' = hpos
              ELSE /\ thr' = [thr EXCEPT ![c] = [pc |-> "done", req |-> <<refid, start, ln>>,
                                                 plan |-> p, result |-> f.result]]
                   /\ hpos' = [hpos EXCEPT ![handleOf(disc, c)] = f.fhpos]
    /\ UNCHANGED <<pc, result, avars, fvars, ixs, lno, disc, ngets, dec>>

NextConc == \E c \in Callers : GetSeek(c) \/ GetRead(c) \/ GetLocked(c)

SpecConc == InitConc /\ [][NextConc]_vars

\* ------------------------------------- one caller, several get calls in a row
\* Files of a record "a" and, or not, a record "b", each of up to n nucleotides
\* written one or two to a line.
HistFiles(n) ==
    LET recA == {RecordText(<<"a">>, FALSE, 0, m, w) : m \in 0..n, w \in 1..2}
        recB == {<<>>} \cup {RecordText(<<"b">>, FALSE, 3, m, w) : m \in 0..n, w \in 1..2}
    IN  {a \o b : a \in recA, b \in recB}

\* The reader has just been opened on the indexed file.
InitHistory ==
    /\ pc = "ready"
    /\ result = NoResult
    /\ fa \in HistFiles(MaxHistLen)
    /\ faidx = index_fasta(fa).val
    /\ reader = FastaIndexed(faiText(index_fasta(fa).val))
    /\ fhpos = 0 /\ io = <<>> /\ req = <<>>
    /\ cigar = <<>> /\ tracks = <<>>
    /\ IdleStack
    /\ IdleLoops
    /\ IdleCallers

\* result = fa_idx.get(refid, start, ln), on the reader as the calls before left
\* it; io holds the seek and the read of the last call that got that far.
GetNext ==
    /\ pc \in {"ready", "done"}
    /\ ngets < MaxGets
    /\ \E refid \in RecordNames \cup {<<"c">>},
          start \in 0..(MaxHistLen + 1), ln \in 0..(MaxHistLen + 1) :
          LET p == getPlan(reader, refid, start, ln)
              at == seekTo(fhpos, p.byteOff)
              f == getFinish(fa, at, p)
          IN  /\ req' = <<refid, start, ln>>
              /\ IF p.exc # "none"
                 THEN /\ result' = Raise(p.exc)
                      /\ UNCHANGED <<fhpos, io>>
                 ELSE /\ result' = f.result
                      /\ fhpos' = f.fhpos
                      /\ io' = << <<"seek", at>>, <<"read", p.n>> >>
    /\ ngets' = ngets + 1
    /\ pc' = "done"
    /\ UNCHANGED <<avars, fa, faidx, reader, ixs, lno, cvars, dec>>

NextHistory == GetNext

SpecHistory == InitHistory /\ [][NextHistory]_vars

\* --------------------------------------- the decoders, one iteration at a time
\* Parsed CIGAR operations and MD:Z entries handed to cigarMdzToStacked as
\* lists; a caller may build such lists itself, also with runs of zero.
LoopOps == {<<0, 0>>, <<0, 1>>, <<0, 2>>, <<1, 1>>, <<2, 1>>}
LoopEntries == {<<0, 0, <<>> >>, <<0, 1, <<>> >>, <<0, 2, <<>> >>,
                <<1, 1, <<"G">> >>, <<2, 1, <<"T">> >>}

\* The loop variables of the decoder fn before its first iteration: the index
\* i and the list ret of cigarToList and mdzToList; the call state st, the
\* position ci in cgp and, inside the while loop, runleft of cigarMdzToStacked.
LoopStart(fn, mdp) ==
    [fn |-> fn, i |-> 0, ret |-> <<>>, st |-> StackStart(mdp), ci |-> 0,
     loop |-> "outer", runleft |-> 0]

InitLoops ==
    /\ pc = "iter"
    /\ result = NoResult
    /\ tracks = <<>>
    /\ mdp_orig = <<>> /\ stk = StackStart(<<>>) /\ ci = 0 /\ call = 0
    /\ first = NoResult /\ recigar = <<>> /\ remd = <<>>
    /\ IdleFasta
    /\ IdleCallers
    /\ ixs = <<>> /\ lno = 0 /\ ngets = 0
    /\ \/ /\ cigar \in RawCigarInputs(MaxLoopLen)
          /\ md = <<>> /\ seq = <<>> /\ cgp = <<>> /\ mdp_given = <<>>
          /\ dec = LoopStart("cigarToList", <<>>)
       \/ /\ md \in RawMdInputs(MaxLoopLen)
          /\ cigar = <<>> /\ seq = <<>> /\ cgp = <<>> /\ mdp_given = <<>>
          /\ dec = LoopStart("mdzToList", <<>>)
       \/ /\ seq = ReadOf(MaxSeqLen)
          /\ cgp \in StringsUpTo(LoopOps, MaxLoopItems)
          /\ mdp_given \in StringsUpTo(LoopEntries, MaxLoopItems)
          /\ cigar = <<>> /\ md = <<>>
          /\ dec = LoopStart("cigarMdzToStacked", mdp_given)

\* The result r ends the call.
LoopEnds(r) ==
    /\ result' = r
    /\ pc' = "done"

LoopFrame == UNCHANGED <<avars, fvars, ixs, lno, cvars, ngets>>

\* cigarToList: one iteration of `while i < len(cigar)`.
CigarIter ==
    /\ pc = "iter" /\ dec.fn = "cigarToList"
    /\ dec.i < Len(cigar)
    /\ LET r == cigarIter(cigar, dec.i, dec.ret)
       IN  /\ dec' = [dec EXCEPT !.i = r.i, !.ret = r.ret]
           /\ IF r.exc # "none" THEN LoopEnds(Raise(r.exc))
              ELSE UNCHANGED <<pc, result>>
    /\ LoopFrame

\* cigarToList: the loop condition fails, `return ret`.
CigarExit ==
    /\ pc = "iter" /\ dec.fn = "cigarToList"
    /\ ~(dec.i < Len(cigar))
    /\ LoopEnds(Return(dec.ret))
    /\ UNCHANGED dec
    /\ LoopFrame

\* mdzToList: one iteration of `while i < len(md)`.
MdzIter ==
    /\ pc = "iter" /\ dec.fn = "mdzToList"
    /\ dec.i < Len(md)
    /\ LET r == mdzIter(md, dec.i, dec.ret)
       IN  /\ dec' = [dec EXCEPT !.i = r.i, !.ret = r.ret]
           /\ IF r.exc # "none" THEN LoopEnds(Raise(r.exc))
              ELSE UNCHANGED <<pc, result>>
    /\ LoopFrame

\* mdzToList: the loop condition fails, `return ret`.
MdzExit ==
    /\ pc = "iter" /\ dec.fn = "mdzToList"
    /\ ~(dec.i < Len(md))
    /\ LoopEnds(Return(dec.ret))
    /\ UNCHANGED dec
    /\ LoopFrame

\* cigarMdzToStacked: `for c in cgp` takes the next operation.  For M, = or X
\* the while loop is entered with runleft = run; any other operation is done
\* in this step.
ForIter ==
    /\ pc = "iter" /\ dec.fn = "cigarMdzToStacked" /\ dec.loop = "outer"
    /\ dec.ci < Len(cgp)
    /\ LET c == cgp[dec.ci + 1]
           skipping == (c[1] = 4 \/ c[1] = 5)
       IN  IF ~(skipping \/ dec.st.mdo < Len(dec.st.mdp))
           THEN /\ dec' = [dec EXCEPT !.st = StackFail(@, "AssertionError")]
                /\ LoopEnds(Raise("AssertionError"))
           ELSE IF c[1] = 0
           THEN /\ dec' = [dec EXCEPT !.loop = "while", !.runleft = c[2]]
                /\ UNCHANGED <<pc, result>>
           ELSE LET st == stackOp(seq, dec.st, c)
                IN  IF st.exc # "none"
                    THEN /\ dec' = [dec EXCEPT !.st = st]
                         /\ LoopEnds(Raise(st.exc))
                    ELSE /\ dec' = [dec EXCEPT !.st = st, !.ci = @ + 1]
                         /\ UNCHANGED <<pc, result>>
    /\ LoopFrame

\* cigarMdzToStacked: one iteration of `while runleft > 0 and mdo < len(mdp)`.
WhileIter ==
    /\ pc = "iter" /\ dec.fn = "cigarMdzToStacked" /\ dec.loop = "while"
    /\ dec.runleft > 0 /\ dec.st.mdo < Len(dec.st.mdp)
    /\ LET r == stackMatchIter(seq, dec.st, dec.runleft)
       IN  /\ dec' = [dec EXCEPT !.st = r.st, !.runleft = r.runleft]
           /\ IF r.st.exc # "none" THEN LoopEnds(Raise(r.st.exc))
              ELSE UNCHANGED <<pc, result>>
    /\ LoopFrame

\* cigarMdzToStacked: the while condition fails; the for loop goes on.
WhileExit ==
    /\ pc = "iter" /\ dec.fn = "cigarMdzToStacked" /\ dec.loop = "while"
    /\ ~(dec.runleft > 0 /\ dec.st.mdo < Len(dec.st.mdp))
    /\ dec' = [dec EXCEPT !.loop = "outer", !.ci = @ + 1]
    /\ UNCHANGED <<pc, result>>
    /\ LoopFrame

\* cigarMdzToStacked: cgp is exhausted; the final assert and the return.
ForExit ==
    /\ pc = "iter" /\ dec.fn = "cigarMdzToStacked" /\ dec.loop = "outer"
    /\ ~(dec.ci < Len(cgp))
    /\ LoopEnds(stackReturn(dec.st))
    /\ UNCHANGED dec
    /\ LoopFrame

NextLoops ==
    \/ CigarIter \/ CigarExit
    \/ MdzIter \/ MdzExit
    \/ ForIter \/ WhileIter \/ WhileExit \/ ForExit

SpecLoops == InitLoops /\ [][NextLoops]_vars

\* A call that is running keeps running: its next iteration is taken.
SpecLoopsFair == SpecLoops /\ WF_vars(NextLoops)

\* ================================================================= claims
\* The sum of the run lengths of a parsed CIGAR list.
RECURSIVE SumRuns(_)
SumRuns(l) == IF l = <<>> THEN 0 ELSE Head(l)[2] + SumRuns(Tail(l))

\* A call of cigarMdzToStacked has returned its two tracks.
Returned == pc = "done" /\ call >= 1 /\ Ok(result)

\* C1: whenever cigarMdzToStacked(seq, cigarToList(cigar), mdzToList(md))
\* returns, its two tracks have the same length, and that length is the sum of
\* the run lengths of all CIGAR operations.
C1_TrackLengths ==
    Returned =>
        /\ Len(result.val[1]) = Len(result.val[2])
        /\ Len(result.val[1]) = SumRuns(cgp)

\* The MD:Z entries the finished for loop left behind: those at or after the
\* cursor (an entry shrunk in place stays under the cursor).
MdzLeftOver == stk.mdo < Len(mdp_given)

\* C2: cigarMdzToStacked returns a result only if the MD:Z cursor is at the end
\* of the MD:Z list after the last CIGAR operation; with an entry left
\* unconsumed or partially consumed the call fails with the assertion error and
\* returns no tracks.
C2_ReturnsOnlyWhenMdzConsumed ==
    (pc = "done" /\ call >= 1) =>
        /\ Ok(result) => stk.mdo = Len(mdp_given)
        /\ (stk.exc = "none" /\ MdzLeftOver) => result = Raise("AssertionError")

\* C2 witness: the for loop ended with a match run shrunk but not finished, and
\* the call failed.
C2_Witness ==
    /\ pc = "done" /\ call = 1
    /\ stk.exc = "none"
    /\ ci = Len(cgp)
    /\ stk.mdo < Len(mdp_given)
    /\ stk.mdp[stk.mdo + 1][2] < mdp_given[stk.mdo + 1][2]
    /\ result = Raise("AssertionError")

\* C3: cigarMdzToStacked does not modify the parsed MD:Z list it is given, so
\* that a second call with the same three arguments gives the same result as
\* the first.
C3_MdzListNotModified ==
    /\ call >= 1 => mdp_orig = mdp_given
    /\ (pc = "done" /\ call = 2) => result = first

\* The CIGAR list of the first call (cigar is never reassigned).
cgp_first == cigarToList(cigar).val

\* The number of read characters a parsed CIGAR list consumes: the runs of its
\* M/=/X, I and S operations.
RECURSIVE ReadNeeded(_)
ReadNeeded(l) ==
    IF l = <<>> THEN 0
    ELSE (IF Head(l)[1] \in {0, 1, 4} THEN Head(l)[2] ELSE 0) + ReadNeeded(Tail(l))

NoHardClip(l) == \A k \in 1..Len(l) : l[k][1] = 5 => l[k][2] = 0

\* The request of the get call made: record name, start and length.
reqName == req[1]
reqStart == req[2]
reqLen == req[3]
GetCalled == pc = "done" /\ req # <<>>

\* C4: for a file of uniquely named records, indexed and loaded through the
\* index file, get(name, start, length) with start + length within the record's
\* length returns parse_fasta(file)[name][start:start+length].
C4_GetReturnsSubstring ==
    (/\ GetCalled
     /\ reqName \in DOMAIN reader.offset
     /\ reqStart + reqLen <= reader.lens[reqName])
    => /\ Ok(parse_fasta(fa))
       /\ result = Return(Slice(parse_fasta(fa).val[reqName],
                                reqStart, reqStart + reqLen))

\* C5: get fails with the out-of-bounds error exactly when start + length
\* exceeds the record's length, fails (assertion) for a name absent from the
\* index, and a failing call makes no seek and no read, leaving the handle where
\* it was.
C5_GetFailures ==
    GetCalled =>
       /\ reqName \notin DOMAIN reader.offset => result = Raise("AssertionError")
       /\ reqName \in DOMAIN reader.offset =>
            /\ ~Ok(result) <=> (reqStart + reqLen > reader.lens[reqName])
            /\ ~Ok(result) => result = Raise("FastaOOB")
       /\ ~Ok(result) => (io = <<>> /\ fhpos = 0)

\* C6 (as claimed): for every (seq, cigar, md) on which cigarMdzToStacked
\* succeeds with stacked alignment A, decoding cigarize(A) and the MD:Z string of
\* A and reconciling them with seq succeeds and returns A again.
C6_RoundTrip ==
    (pc = "done" /\ call = 2) => result = first

\* C6 (restricted): the round trip does hold when the CIGAR has no hard clip
\* of non-zero length and the read holds every character the CIGAR consumes.
C6_RoundTripRestricted ==
    (pc = "done" /\ call = 2 /\ NoHardClip(cgp_first)
        /\ ReadNeeded(cgp_first) <= Len(seq))
    => result = first

\* The class the claim gives a position holding r in ReadTrack and f in
\* RefTrack: the first rule that applies.
ClaimedClass(r, f) ==
    CASE f = " " -> "S"
      [] f # " " /\ r = "-" /\ f = "-" -> "N"
      [] f # " " /\ r = "-" /\ f # "-" -> "D"
      [] f # " " /\ r # "-" /\ f = "-" -> "I"
      [] f # " " /\ r # "-" /\ f # "-" /\ r # f -> "X"
      [] OTHER -> "="

\* The value of a string of decimal digits (0 for the empty string).
RECURSIVE DecimalValue(_)
DecimalValue(ds) ==
    IF ds = <<>> THEN 0
    ELSE 10 * DecimalValue(SubSeq(ds, 1, Len(ds) - 1)) + int(ds[Len(ds)])

\* The positions of the non-digit characters of a string, in order.
NonDigitPositions(s) == {k \in 1..Len(s) : ~isdigit(s[k])}
NthPosition(P, n) == CHOOSE k \in P : Cardinality({j \in P : j < k}) = n - 1

\* The digits in front of the n-th non-digit character of s.
DigitsBefore(s, n) ==
    LET P == NonDigitPositions(s)
        k == NthPosition(P, n)
        prev == IF n = 1 THEN 0 ELSE NthPosition(P, n - 1)
    IN  SubSeq(s, prev + 1, k - 1)

\* A run-length string written out: each letter as often as its count says.
ExpandRuns(s) ==
    LET P == NonDigitPositions(s)
    IN  Concat([n \in 1..Cardinality(P) |->
                  Repeat(s[NthPosition(P, n)], DecimalValue(DigitsBefore(s, n)))])

\* C7: cigarize classifies each position by the first rule that applies (blank
\* RefTrack: S; both gaps: N; ReadTrack gap: D; RefTrack gap: I; different
\* characters: X; otherwise =), so its output has only the letters = X I D N S.
C7_CigarizeClasses ==
    (pc = "done" /\ tracks # <<>>) =>
        /\ Ok(result)
        /\ ExpandRuns(result.val) =
               [k \in 1..Len(tracks[1]) |-> ClaimedClass(tracks[1][k], tracks[2][k])]
        /\ \A k \in NonDigitPositions(result.val) :
               result.val[k] \in {"=", "X", "I", "D", "N", "S"}

\* C7 witness: a hard-clip marker over a blank, a double gap and a mismatch.
C7_Witness ==
    /\ pc = "done"
    /\ tracks = <<<<"!", "-", "A">>, <<" ", "-", "C">>>>
    /\ result = Return(<<"1", "S", "1", "N", "1", "X">>)

\* The kind the claim gives an operation letter.
ClaimedKind(c) ==
    CASE c = "M" -> 0 [] c = "=" -> 0 [] c = "X" -> 0
      [] c = "I" -> 1 [] c = "D" -> 2 [] c = "N" -> 3
      [] c = "S" -> 4 [] c = "H" -> 5 [] c = "P" -> 6

\* A string made of (digits, operation letter) pairs.
CigarPairs(s) ==
    /\ \A k \in 1..Len(s) : isdigit(s[k]) \/ s[k] \in OpLetters
    /\ s # <<>> => ~isdigit(s[Len(s)])

\* C8: for a string made of (digits, opLetter) pairs cigarToList returns one
\* (kind, run length) entry per operation letter, in input order; the run length
\* is the decimal value of the digits before the letter (zero runs are kept) and
\* the kind is 0 for M, = and X, 1 for I, 2 for D, 3 for N, 4 for S, 5 for H and
\* 6 for P.
C8_CigarToListEntries ==
    (pc = "done" /\ tracks = <<>> /\ CigarPairs(cigar)) =>
        /\ Ok(result)
        /\ Len(result.val) = Cardinality(NonDigitPositions(cigar))
        /\ \A n \in 1..Len(result.val) :
               result.val[n] = <<ClaimedKind(cigar[NthPosition(NonDigitPositions(cigar), n)]),
                                 DecimalValue(DigitsBefore(cigar, n))>>

\* C8 witness: a two-digit run and a run without digits (zero), both kept.
C8_Witness ==
    /\ pc = "done"
    /\ cigar = <<"1", "0", "=", "X">>
    /\ result = Return(<< <<0, 10>>, <<0, 0>> >>)

\* C9: cigarToList fails (assertion error), returning no list, on a string that
\* ends with digits and on a string with a non-digit character outside
\* M = X I D N S H P.
C9_CigarToListRejects ==
    (pc = "done" /\ tracks = <<>> /\ cigar # <<>>
        /\ (\/ isdigit(cigar[Len(cigar)])
            \/ \E k \in 1..Len(cigar) : ~isdigit(cigar[k]) /\ cigar[k] \notin OpLetters))
    => result = Raise("AssertionError")

\* C9 witness: the string "10" was rejected.
C9_Witness ==
    /\ pc = "done"
    /\ cigar = <<"1", "0">>
    /\ result = Raise("AssertionError")

\* C10: cigarToList applied to the empty string fails.
C10_EmptyCigarFails ==
    (pc = "done" /\ tracks = <<>> /\ cigar = <<>>) => ~Ok(result)

\* The class of a character of an MD:Z string.
MdClass(c) ==
    IF isdigit(c) THEN "digit" ELSE IF isalpha(c) THEN "letter"
    ELSE IF c = "^" THEN "caret" ELSE "other"

\* A string of the MD:Z grammar (digits | letters | '^' letters)*.
MdGrammar(s) ==
    /\ \A k \in 1..Len(s) : MdClass(s[k]) # "other"
    /\ \A k \in 1..Len(s) :
          s[k] = "^" => (k < Len(s) /\ MdClass(s[k + 1]) = "letter")

\* Where the runs of an MD:Z string start: at a caret, and wherever the class
\* changes, except that the letters after a caret belong to the caret's run.
MdRunStarts(s) ==
    {k \in 1..Len(s) :
        \/ k = 1
        \/ s[k] = "^"
        \/ /\ MdClass(s[k]) # MdClass(s[k - 1])
           /\ ~(MdClass(s[k]) = "letter" /\ s[k - 1] = "^")}

\* The n-th run of s, as a string.
MdRun(s, n) ==
    LET P == MdRunStarts(s)
        a == NthPosition(P, n)
        b == IF n = Cardinality(P) THEN Len(s) ELSE NthPosition(P, n + 1) - 1
    IN  SubSeq(s, a, b)

\* The entry the claim gives a run: none (the empty list) for a digit run of
\* value zero.
ClaimedMdEntries(r) ==
    IF MdClass(r[1]) = "digit"
    THEN IF DecimalValue(r) = 0 THEN <<>> ELSE << <<0, DecimalValue(r), <<>> >> >>
    ELSE IF MdClass(r[1]) = "letter" THEN << <<1, Len(r), r>> >>
    ELSE << <<2, Len(r) - 1, Tail(r)>> >>

RECURSIVE ClaimedMdz(_, _)
ClaimedMdz(s, n) ==
    IF n > Cardinality(MdRunStarts(s)) THEN <<>>
    ELSE ClaimedMdEntries(MdRun(s, n)) \o ClaimedMdz(s, n + 1)

MdzCalled == pc = "done" /\ call = 0 /\ cigar = <<>> /\ tracks = <<>> /\ req = <<>>

MalformedMdz == {Raise("AssertionError"), Raise("RuntimeError")}

\* C12: mdzToList fails with its malformed-string error, returning no list, when
\* a caret is not followed by a letter and when the string holds a character
\* that is not a digit, a letter or a caret.
C12_MdzToListRejects ==
    (/\ MdzCalled
     /\ \/ \E k \in 1..Len(md) :
              md[k] = "^" /\ ~(k < Len(md) /\ MdClass(md[k + 1]) = "letter")
        \/ \E k \in 1..Len(md) : MdClass(md[k]) = "other")
    => result \in MalformedMdz

\* The lines of a text, by the positions where they end: at every line feed,
\* and at the last character when that is not a line feed.
LineEnds(t) ==
    {k \in 1..Len(t) : t[k] = "\n"} \cup (IF t # <<>> /\ t[Len(t)] # "\n" THEN {Len(t)} ELSE {})
LineCount(t) == Cardinality(LineEnds(t))
LineEnd(t, n) == NthPosition(LineEnds(t), n)
LineAt(t, n) ==
    SubSeq(t, (IF n = 1 THEN 0 ELSE LineEnd(t, n - 1)) + 1, LineEnd(t, n))
IsHeader(t, n) == LineAt(t, n)[1] = ">"
HeaderLines(t) == {n \in 1..LineCount(t) : IsHeader(t, n)}

\* A line without its terminator, and the length of a line without any of its
\* trailing whitespace.
TerminatorStripped(l) ==
    IF l # <<>> /\ l[Len(l)] = "\n" THEN SubSeq(l, 1, Len(l) - 1) ELSE l
WsStrippedLen(l) ==
    LET N == {k \in 1..Len(l) : l[k] \notin Whitespace}
    IN  IF N = {} THEN 0 ELSE CHOOSE k \in N : \A j \in N : j <= k

\* The header text after the marker up to the first whitespace character.
TextToFirstWs(l) ==
    LET u == Tail(l)
        W == {k \in 1..Len(u) : u[k] \in Whitespace}
    IN  IF W = {} THEN u ELSE SubSeq(u, 1, (CHOOSE k \in W : \A j \in W : k <= j) - 1)

\* The first whitespace-delimited token of the header text after the marker
\* (the empty string when there is none).
FirstToken(l) ==
    LET u == Tail(l)
        N == {k \in 1..Len(u) : u[k] \notin Whitespace}
    IN  IF N = {} THEN <<>>
        ELSE LET a == CHOOSE k \in N : \A j \in N : k <= j
                 E == {k \in a..Len(u) : \A j \in a..k : j \in N}
             IN  SubSeq(u, a, CHOOSE k \in E : \A j \in E : j <= k)

\* The data lines of the record whose header is line h, summed by their
\* terminator-stripped length or by their whitespace-stripped length.
RECURSIVE DataLength(_, _, _)
DataLength(t, n, wsStripped) ==
    IF n > LineCount(t) \/ IsHeader(t, n) THEN 0
    ELSE (IF wsStripped THEN WsStrippedLen(LineAt(t, n))
          ELSE Len(TerminatorStripped(LineAt(t, n))))
         + DataLength(t, n + 1, wsStripped)

IndexCalled == pc = "done" /\ req = <<>> /\ call = 0

C14_NoRecordsFails ==
    (IndexCalled /\ HeaderLines(fa) = {}) => ~Ok(result)

\* The for loop of the running call has processed its first ci operations; the
\* operation it stopped in, when one failed, is the next one.
InCall == call >= 1 /\ pc \in {"loop", "done"}
FailedInOp == pc = "done" /\ call >= 1 /\ stk.exc # "none" /\ ci < Len(cgp)
FailedOpKind == cgp[ci + 1][1]

\* C15: whenever cigarMdzToStacked reaches a Padding operation it fails with the
\* error raised for P (RuntimeError), whatever the MD:Z cursor, and no Padding
\* operation is ever passed.
C15_PaddingFails ==
    /\ InCall => \A k \in 1..ci : cgp[k][1] # 6
    /\ (FailedInOp /\ FailedOpKind = 6) => result = Raise("RuntimeError")

\* C16: if the MD:Z list runs out while an M/=/X operation still has positions
\* to consume, the call fails: while the call has not failed, the operations
\* processed so far have consumed all the read positions of their run lengths
\* (I and S always take their run length, so a shortfall is an M/=/X one).
C16_MdzShortageFails ==
    (InCall /\ stk.exc = "none") => stk.rdoff = ReadNeeded(SubSeq(cgp, 1, ci))

\* The sum of the run lengths of the entries of l whose kind is in K.
RECURSIVE SumRunsOf(_, _)
SumRunsOf(l, K) ==
    IF l = <<>> THEN 0
    ELSE (IF Head(l)[1] \in K THEN Head(l)[2] ELSE 0) + SumRunsOf(Tail(l), K)

\* The for loop is about to process an operation of kind k, of run OpRun, with
\* CurEntry under the MD:Z cursor (when HasEntry).
StepOn(k) == pc = "loop" /\ ci < Len(cgp) /\ cgp[ci + 1][1] = k
OpRun == cgp[ci + 1][2]
HasEntry == stk.mdo < Len(stk.mdp)
CurEntry == stk.mdp[stk.mdo + 1]

\* An M/=/X operation that needs less than the match run under the cursor takes
\* only what it needs: the cursor stays, the run is reduced by that amount.
MatchStepShrinks ==
    (StepOn(0) /\ HasEntry /\ CurEntry[1] = 0 /\ CurEntry[2] > OpRun) =>
        /\ stk'.exc = "none"
        /\ stk'.mdo = stk.mdo
        /\ stk'.mdp = [stk.mdp EXCEPT ![stk.mdo + 1][2] = @ - OpRun]
        /\ stk'.rdoff = stk.rdoff + OpRun

\* An M/=/X operation that needs the whole match run under the cursor, or more,
\* moves the cursor past it.
MatchStepAdvances ==
    (StepOn(0) /\ HasEntry /\ CurEntry[1] = 0 /\ CurEntry[2] <= OpRun) =>
        stk'.mdo > stk.mdo

\* An insertion leaves the MD:Z list and its cursor as they are.
InsertionLeavesMdz ==
    StepOn(1) => (stk'.mdp = stk.mdp /\ stk'.mdo = stk.mdo)

\* On a successful return the MD:Z match and mismatch runs add up to the runs of
\* the M/=/X operations.
MatchRunsAddUp ==
    Returned => SumRunsOf(mdp_given, {0, 1}) = SumRunsOf(cgp, {0})

\* C17: an M/=/X operation takes only the part it needs of a longer MD:Z match
\* run, leaving the cursor on the entry with the run reduced by that amount, for
\* the next M/=/X operation (insertions in between leave it alone), and moves
\* the cursor past a run it needs whole; hence on every successful return the
\* MD:Z match and mismatch runs add up to the M/=/X runs.
C17_MatchRunStraddle ==
    /\ []MatchRunsAddUp
    /\ [][MatchStepShrinks /\ MatchStepAdvances /\ InsertionLeavesMdz]_vars

\* The steps of C17 alone, without its conclusion.
MatchRunSteps == [][MatchStepShrinks /\ MatchStepAdvances /\ InsertionLeavesMdz]_vars

\* C18: an M/=/X operation with a mismatch run under the MD:Z cursor takes
\* min(remaining, run length) positions of it, also when that is less than the
\* whole run (the run is sliced, not rejected): an M/=/X operation never fails
\* on a mismatch entry.
C18_MismatchRunSliced ==
    (FailedInOp /\ FailedOpKind = 0 /\ HasEntry) => CurEntry[1] # 1

\* No call has failed in an insertion or a skip.
NoFailedInsertionOrSkip == FailedInOp => FailedOpKind \notin {1, 3}

\* An insertion or a skip leaves the MD:Z list and its cursor as they are.
InsertionSkipLeaveMdz ==
    (StepOn(1) \/ StepOn(3)) => (stk'.mdp = stk.mdp /\ stk'.mdo = stk.mdo)

\* C20: an insertion or a skip never fails, wherever the MD:Z cursor is (also
\* at the end of the list), and neither reads nor changes the MD:Z list or its
\* cursor.
C20_InsertionSkipNeverFail ==
    /\ []NoFailedInsertionOrSkip
    /\ [][InsertionSkipLeaveMdz]_vars

\* A deletion of run R succeeds exactly when the entry under the MD:Z cursor is
\* a deletion entry of run R: then ReadTrack gets R gaps, RefTrack the entry's
\* reference characters and the cursor moves on by one entry; otherwise the call
\* fails with the assertion error.
DeletionStep ==
    StepOn(2) =>
        IF HasEntry /\ CurEntry[1] = 2 /\ CurEntry[2] = OpRun
        THEN /\ stk' = [stk EXCEPT !.mdo = @ + 1,
                                   !.rds = @ \o Repeat("-", OpRun),
                                   !.rfs = @ \o CurEntry[3]]
             /\ pc' = "loop"
        ELSE /\ stk'.exc = "AssertionError"
             /\ result' = Raise("AssertionError")
             /\ pc' = "done"

\* An M/=/X operation never passes a deletion entry: one under the cursor while
\* positions are left to consume makes the call fail.
MatchStepRejectsDeletion ==
    StepOn(0) =>
        /\ \A k \in (stk.mdo + 1)..stk'.mdo : stk.mdp[k][1] \in {0, 1}
        /\ (OpRun > 0 /\ HasEntry /\ CurEntry[1] = 2) => result' = Raise("AssertionError")
        /\ (/\ stk'.exc = "none" /\ stk'.mdo < Len(stk'.mdp)
            /\ stk'.mdp[stk'.mdo + 1][1] = 2) => stk'.rdoff - stk.rdoff = OpRun

\* The run lengths of the entries of kind k in l, in order.
RunsOfKind(l, k) ==
    LET sel == SelectSeq(l, LAMBDA e : e[1] = k)
    IN  [n \in 1..Len(sel) |-> sel[n][2]]

\* On a successful return the deletion operations and the MD:Z deletion entries
\* are the same in number, order and run length.
DeletionsPaired == Returned => RunsOfKind(cgp, 2) = RunsOfKind(mdp_given, 2)

\* C19: MD:Z deletion entries and CIGAR deletions are paired one to one: a
\* deletion of run R succeeds only on a deletion entry of run exactly R (R gaps
\* to ReadTrack, the entry's characters to RefTrack, the cursor one entry on), a
\* deletion entry met by an M/=/X operation is rejected, and every other pairing
\* fails with the assertion error.
C19_DeletionsPairedOneToOne ==
    /\ []DeletionsPaired
    /\ [][DeletionStep /\ MatchStepRejectsDeletion]_vars

\* C19 witness: a deletion paired with its entry, after a match.
C19_Witness ==
    /\ Returned
    /\ seq = <<"A">>
    /\ cigar = <<"1", "M", "1", "D">>
    /\ md = <<"1", "^", "T">>
    /\ result = Return(<< <<"A", "-">>, <<"A", "T">> >>)

\* A soft clip of run R: the next R read characters, lower-cased, to ReadTrack,
\* R spaces to RefTrack, the read cursor R further; it does not fail.
SoftClipStep ==
    StepOn(4) =>
        /\ stk'.exc = "none"
        /\ stk'.rds = stk.rds \o lower(Slice(seq, stk.rdoff, stk.rdoff + OpRun))
        /\ Len(stk'.rds) = Len(stk.rds) + OpRun
        /\ stk'.rfs = stk.rfs \o Repeat(" ", OpRun)
        /\ stk'.rdoff = stk.rdoff + OpRun

\* A hard clip of run R: R clip markers to ReadTrack, R spaces to RefTrack, the
\* read cursor where it was; it does not fail.
HardClipStep ==
    StepOn(5) =>
        /\ stk'.exc = "none"
        /\ stk'.rds = stk.rds \o Repeat("!", OpRun)
        /\ stk'.rfs = stk.rfs \o Repeat(" ", OpRun)
        /\ stk'.rdoff = stk.rdoff

\* Neither clip changes the MD:Z list or its cursor.
ClipLeavesMdz ==
    (StepOn(4) \/ StepOn(5)) => (stk'.mdp = stk.mdp /\ stk'.mdo = stk.mdo)

\* C21: a SoftClip of run R appends the next R read characters, lower-cased, to
\* ReadTrack and R spaces to RefTrack and advances the read cursor by R; a
\* HardClip of run R appends R clip markers to ReadTrack and R spaces to
\* RefTrack and leaves the read cursor; neither changes the MD:Z cursor or list,
\* and both succeed also when the MD:Z list is already consumed.
C21_ClipSteps == [][SoftClipStep /\ HardClipStep /\ ClipLeavesMdz]_vars

\* What holds of C21: the hard clip and the MD:Z frame, and the soft clip with
\* as many read characters as the read has left.
ClipStepsAsCoded ==
    [][/\ HardClipStep
       /\ ClipLeavesMdz
       /\ StepOn(4) =>
            /\ stk'.exc = "none"
            /\ stk'.rds = stk.rds \o lower(Slice(seq, stk.rdoff, stk.rdoff + OpRun))
            /\ stk'.rfs = stk.rfs \o Repeat(" ", OpRun)
            /\ stk'.rdoff = stk.rdoff + OpRun]_vars

\* The largest length among the data lines that follow line n - 1 up to the next
\* header: without the terminator (raw = FALSE) or as read (raw = TRUE).
RECURSIVE DataLineMax(_, _, _)
DataLineMax(t, n, raw) ==
    IF n > LineCount(t) \/ IsHeader(t, n) THEN 0
    ELSE Max(IF raw THEN Len(LineAt(t, n)) ELSE Len(TerminatorStripped(LineAt(t, n))),
             DataLineMax(t, n + 1, raw))

\* C22: every entry index_fasta returns carries the line geometry of its own
\* record only: MaxCharsPerLine is the largest terminator-stripped length and
\* MaxBytesPerLine the largest raw length among the data lines of that record,
\* whatever the data lines of earlier records (so MaxBytesPerLine >=
\* MaxCharsPerLine).
C22_OwnRecordGeometry ==
    (IndexCalled /\ Ok(result)) =>
        \A n \in 1..Len(result.val) :
            LET h == NthPosition(HeaderLines(fa), n)
            IN  /\ result.val[n][4] = DataLineMax(fa, h + 1, FALSE)
                /\ result.val[n][5] = DataLineMax(fa, h + 1, TRUE)
                /\ result.val[n][5] >= result.val[n][4]

\* What holds of C22: the geometry of an entry is that of all the data lines of
\* the file up to the end of its record, with all trailing whitespace stripped
\* for MaxCharsPerLine.
RECURSIVE LinesMax(_, _, _)
LinesMax(t, n, raw) ==
    IF n = 0 THEN 0
    ELSE Max(IF IsHeader(t, n) THEN 0
             ELSE IF raw THEN Len(LineAt(t, n)) ELSE WsStrippedLen(LineAt(t, n)),
             LinesMax(t, n - 1, raw))
RecordLastLine(t, h) ==
    LET N == {n \in (h + 1)..LineCount(t) : IsHeader(t, n)}
    IN  IF N = {} THEN LineCount(t) ELSE (CHOOSE n \in N : \A m \in N : n <= m) - 1
GeometryAsCoded ==
    (IndexCalled /\ Ok(result)) =>
        \A n \in 1..Len(result.val) :
            LET h == NthPosition(HeaderLines(fa), n)
            IN  /\ result.val[n][4] = LinesMax(fa, RecordLastLine(fa, h), FALSE)
                /\ result.val[n][5] = LinesMax(fa, RecordLastLine(fa, h), TRUE)
                /\ result.val[n][5] >= result.val[n][4]

\* The header lines among the first n lines of a text.
HeadersRead(t, n) == {h \in HeaderLines(t) : h <= n}

\* The loop of index_fasta is running, or has finished without failing.
IndexRunning == pc = "indexloop"
IndexReturned == pc = "done" /\ lno = LineCount(fa) /\ Ok(result)

\* The line-by-line loop computes what the call as a whole does.
IndexLinesAgree == (pc = "done" /\ ixs # <<>>) => result = index_fasta(fa)

\* While the loop runs the list holds one entry for every header read but the
\* last one, whose record is open; the entries stand in the order of the
\* headers, each at the offset just after its header.
EntriesWhileReading ==
    IndexRunning =>
        /\ ixs.open = (HeadersRead(fa, lno) # {})
        /\ Len(ixs.index) = Max(Cardinality(HeadersRead(fa, lno)) - 1, 0)
        /\ \A n \in 1..Len(ixs.index) :
              ixs.index[n][3] = LineEnd(fa, NthPosition(HeaderLines(fa), n))

\* The returned list has one entry per header line, in the order of the header
\* lines, with strictly increasing offsets.
EntriesReturned ==
    IndexReturned =>
        /\ Len(result.val) = Cardinality(HeaderLines(fa))
        /\ \A n \in 1..Len(result.val) :
              result.val[n][3] = LineEnd(fa, NthPosition(HeaderLines(fa), n))
        /\ \A n \in 1..(Len(result.val) - 1) : result.val[n][3] < result.val[n + 1][3]

\* Reading a header line appends the entry of the record that was open, if one
\* was, and nothing else; reading a data line appends nothing; at the end of the
\* input the entry of the open record is appended.
EntryAppendedAtNextHeader ==
    /\ (IndexRunning /\ lno < LineCount(fa) /\ pc' = "indexloop") =>
          ixs'.index = (IF IsHeader(fa, lno + 1) /\ ixs.open
                        THEN Append(ixs.index, indexEntry(ixs)) ELSE ixs.index)
    /\ (IndexRunning /\ lno = LineCount(fa)) =>
          result' = Return(IF ixs.open THEN Append(ixs.index, indexEntry(ixs))
                           ELSE ixs.index)

\* Every call of index_fasta returns a list.
IndexAlwaysReturns == (pc = "done" /\ ixs # <<>>) => Ok(result)

\* A header line without any name token after the marker.
BlankHeaders(t) == {h \in HeaderLines(t) : FirstToken(LineAt(t, h)) = <<>>}

\* The call fails exactly on the first header line without a name token, with
\* IndexError, and returns a list otherwise.
IndexFailsOnBlankHeader ==
    (pc = "done" /\ ixs # <<>>) =>
        IF BlankHeaders(fa) = {} THEN IndexReturned
        ELSE /\ result = Raise("IndexError")
             /\ lno = NthPosition(BlankHeaders(fa), 1)

GetReachedRead == GetCalled /\ Ok(result) /\ Len(io) = 2
reqChars == reader.charsPerLine[reqName]
reqBytes == reader.bytesPerLine[reqName]
reqLeft == reqChars - (reqStart % reqChars)
SoughtOffset == io[1][2]
BytesAsked == io[2][2]
CeilDiv(a, b) == (a + b - 1) \div b

\* C24 (as claimed): get reads exactly `length` bytes and returns them as read
\* whenever MaxCharsPerLine - (start mod MaxCharsPerLine) >= length; otherwise
\* it reads length + breaks * (MaxBytesPerLine - MaxCharsPerLine) bytes, with
\* breaks = 1 + ceil((length - left) / MaxCharsPerLine), and strips whitespace.
C24_BytesRead ==
    GetReachedRead =>
        IF reqLeft >= reqLen
        THEN /\ BytesAsked = reqLen
             /\ result.val = fhRead(fa, SoughtOffset, reqLen)
        ELSE LET breaks == 1 + CeilDiv(reqLen - reqLeft, reqChars)
                 n == reqLen + breaks * (reqBytes - reqChars)
             IN  /\ BytesAsked = n
                 /\ result.val = removeWs(fhRead(fa, SoughtOffset, n))

\* C24 (amended): the short read is taken only when length is strictly less
\* than what is left on the line; otherwise breaks = 1 + floor((length - left)
\* / MaxCharsPerLine), so a request ending exactly at the end of the line reads
\* one terminator more and is stripped.
C24_BytesReadAmended ==
    GetReachedRead =>
        IF reqLeft > reqLen
        THEN /\ BytesAsked = reqLen
             /\ result.val = fhRead(fa, SoughtOffset, reqLen)
        ELSE LET breaks == 1 + (reqLen - reqLeft) \div reqChars
                 n == reqLen + breaks * (reqBytes - reqChars)
             IN  /\ BytesAsked = n
                 /\ result.val = removeWs(fhRead(fa, SoughtOffset, n))

\* C24 witness: a request of four characters from the start of a record written
\* three to a line crosses one line break and reads five bytes.
C24_Witness ==
    /\ GetReachedRead
    /\ reqChars = 3 /\ reqBytes = 4
    /\ reqStart = 0 /\ reqLen = 4
    /\ BytesAsked = 5
    /\ Len(result.val) = 4

\* A request ending exactly at the end of its line reads the terminator too.
C24_WholeLineRead ==
    /\ GetReachedRead
    /\ reqChars = 3 /\ reqBytes = 4
    /\ reqStart = 0 /\ reqLen = 3
    /\ BytesAsked = 4
    /\ result.val = <<"A", "C", "G">>

\* cigarToList, called on its own, has returned a list.
CigarListReturned == pc = "done" /\ tracks = <<>> /\ call = 0 /\ req = <<>> /\ Ok(result)

\* C25: every element of every list cigarToList returns has run length >= 1: a
\* zero run length ("0M") or a letter without digits ("M") yields no list with a
\* zero-length run.
C25_RunLengthsPositive ==
    CigarListReturned =>
        \A k \in 1..Len(result.val) : result.val[k][2] >= 1

\* The runs of a run-length string: the letters at its non-digit positions and
\* the counts written in front of them.
RunCount(s) == Cardinality(NonDigitPositions(s))
RunLetter(s, n) == s[NthPosition(NonDigitPositions(s), n)]
RunLen(s, n) == DecimalValue(DigitsBefore(s, n))
RECURSIVE RunLenSum(_, _)
RunLenSum(s, n) == IF n = 0 THEN 0 ELSE RunLen(s, n) + RunLenSum(s, n - 1)

\* cigarize, called on its own, is done.
CigarizeCalled == pc = "done" /\ tracks # <<>>

\* C26: for every equal-length pair of tracks of length n the output of cigarize
\* is a sequence of (count, letter) runs: every count is written in decimal
\* without a leading zero and is >= 1, no two adjacent runs have the same
\* letter, the counts sum to n and the runs written out are the classes of the
\* positions in order; for n = 0 the output is the empty string.  Hence
\* cigarToList accepts every non-empty output and the decoded run lengths sum
\* to n.
C26_CigarizeCoalesces ==
    CigarizeCalled =>
        LET n == Len(tracks[1])
            out == result.val
        IN  /\ Ok(result)
            /\ (n = 0) = (out = <<>>)
            /\ out # <<>> => ~isdigit(out[Len(out)])
            /\ \A r \in 1..RunCount(out) :
                  /\ DigitsBefore(out, r) # <<>>
                  /\ DigitsBefore(out, r)[1] # "0"
                  /\ RunLen(out, r) >= 1
            /\ \A r \in 1..(RunCount(out) - 1) : RunLetter(out, r) # RunLetter(out, r + 1)
            /\ RunLenSum(out, RunCount(out)) = n
            /\ ExpandRuns(out) = [k \in 1..n |-> ClaimedClass(tracks[1][k], tracks[2][k])]
            /\ out # <<>> =>
                  /\ Ok(cigarToList(out))
                  /\ Len(cigarToList(out).val) = RunCount(out)
                  /\ SumRuns(cigarToList(out).val) = n

\* C26 witness: ten matching positions and a mismatch give a two-digit count
\* and a second run, which cigarToList decodes to runs of 10 and 1.
C26_Witness ==
    /\ CigarizeCalled
    /\ tracks = <<Repeat("A", 10) \o <<"A">>, Repeat("A", 10) \o <<"C">> >>
    /\ result = Return(<<"1", "0", "=", "1", "X">>)
    /\ cigarToList(result.val) = Return(<< <<0, 10>>, <<0, 1>> >>)

\* The number of positions of a track that hold none of the characters in G.
CountNotIn(t, G) == Cardinality({k \in 1..Len(t) : t[k] \notin G})

\* C27: on every successful return of cigarMdzToStacked the read characters
\* consumed (the final read cursor, and the ReadTrack positions holding a read
\* character) are the sum of the runs of the M/=/X, I and S operations and at
\* most len(seq), and the RefTrack positions holding a reference base are the
\* sum of the runs of the M/=/X and D operations: a read shorter than the CIGAR
\* requires never yields truncated tracks.
C27_CigarAccountsForTracks ==
    Returned =>
        /\ stk.rdoff = SumRunsOf(cgp, {0, 1, 4})
        /\ CountNotIn(result.val[1], {"-", "!"}) = SumRunsOf(cgp, {0, 1, 4})
        /\ stk.rdoff <= Len(seq)
        /\ CountNotIn(result.val[2], {"-", " "}) = SumRunsOf(cgp, {0, 2})

\* What holds of C27 on a successful return: the cursor has moved by the runs of
\* I and S and by what the MD:Z entries gave the M/=/X operations, and the
\* deletions are accounted for in full.
AccountedAsCoded ==
    Returned =>
        /\ stk.rdoff = SumRunsOf(cgp, {1, 4}) + SumRunsOf(mdp_given, {0, 1})
        /\ CountNotIn(result.val[1], {"-", "!"}) <= stk.rdoff
        /\ SumRunsOf(mdp_given, {2}) = SumRunsOf(cgp, {2})

\* What get(refid, start, ln) returns when it is the only call on a reader.
GetAlone(r) == fastaGet(reader, fa, 0, r[1], r[2], r[3]).result

\* Caller c has finished its get.
GetDone(c) == pc = "conc" /\ thr[c].pc = "done"

\* The seek and the read of get, run one after the other, are get.
SeekThenReadIsGet ==
    \A refid \in RecordNames \cup {<<"c">>}, start \in 0..MaxConcLen, ln \in 0..MaxConcLen :
        pc = "conc" =>
            LET p == getPlan(reader, refid, start, ln)
                g == fastaGet(reader, fa, 0, refid, start, ln)
            IN  IF p.exc # "none" THEN g.result = Raise(p.exc)
                ELSE /\ g.result = getFinish(fa, p.byteOff, p).result
                     /\ g.fhpos = getFinish(fa, p.byteOff, p).fhpos

\* C28: get seeks and reads in two steps on a handle shared by all records of a
\* file, without a lock.  If each call's seek and read run as one atomic unit,
\* or each concurrent caller has a handle of its own, every get returns what it
\* returns when run alone, under every interleaving.
C28_SerializedGetsAsAlone ==
    \A c \in Callers :
        (GetDone(c) /\ disc \in {"atomic", "own"}) => thr[c].result = GetAlone(thr[c].req)

\* C28 witness: without that serialization, on the shared handle, caller 1 has
\* sought, caller 2 has sought elsewhere, and caller 1's read returned the bytes
\* at caller 2's offset, not those it returns alone.
C28_Witness ==
    /\ disc = "shared"
    /\ GetDone(1)
    /\ thr[2].pc = "sought"
    /\ thr[1].plan.exc = "none" /\ thr[2].plan.exc = "none"
    /\ thr[1].plan.byteOff # thr[2].plan.byteOff
    /\ thr[1].result = getFinish(fa, thr[2].plan.byteOff, thr[1].plan).result
    /\ thr[1].result # GetAlone(thr[1].req)
    /\ Ok(thr[1].result) /\ thr[1].result.val # <<>>

\* With a lock, both callers have finished gets on different records and each
\* has what it gets alone.
C28_SerializedBothDone ==
    /\ disc = "atomic"
    /\ GetDone(1) /\ GetDone(2)
    /\ thr[1].req[1] # thr[2].req[1]
    /\ Ok(thr[1].result) /\ thr[1].result.val # <<>>
    /\ Ok(thr[2].result) /\ thr[2].result.val # <<>>

\* Without serialization every get would still return what it returns alone.
UnserializedGetsAsAlone ==
    \A c \in Callers : GetDone(c) => thr[c].result = GetAlone(thr[c].req)

\* A single caller has made at least one get on its reader.
GetAfterHistory == pc = "done" /\ ngets >= 1 /\ req # <<>>

\* The last get returned, or failed with, what the same get returns or fails
\* with on a reader just opened.
SameAsOnFreshReader == GetAfterHistory => result = GetAlone(req)

\* A get changes none of the index maps.
GetLeavesMaps == (ngets' # ngets) => reader' = reader

\* C29: the result of get does not depend on the calls a single caller made
\* before: after any sequence of earlier gets, successful or failed, on any
\* records, get(name, start, length) returns the same value or the same
\* failure as on a freshly opened reader, since each call seeks to an absolute
\* offset and no call changes the index maps.
C29_GetIndependentOfHistory ==
    /\ []SameAsOnFreshReader
    /\ [][GetLeavesMaps]_vars

\* C29 witness: the third call, on record "a" and out of range, made after a
\* call that read record "b" and left the handle behind it; it fails as it
\* fails on a reader just opened.
C29_Witness ==
    /\ GetAfterHistory
    /\ ngets = 3
    /\ reqName = <<"a">>
    /\ Len(io) = 2
    /\ <<"b">> \in DOMAIN reader.offset
    /\ io[1][2] >= reader.offset[<<"b">>]
    /\ fhpos > io[1][2]
    /\ result = Raise("NameError")
    /\ result = GetAlone(req)

\* A call that succeeds after two others, with the value it has on a reader just
\* opened.
C29_LaterCallSucceeds ==
    /\ GetAfterHistory
    /\ ngets = 3
    /\ Ok(result) /\ Len(result.val) = 2
    /\ fhpos = io[1][2] + io[2][2]

\* The whole for loop of cigarMdzToStacked from operation k + 1 on.
RECURSIVE stackFrom(_, _, _, _)
stackFrom(seq_, st, l, k) ==
    IF st.exc # "none" THEN Raise(st.exc)
    ELSE IF k = Len(l) THEN stackReturn(st)
    ELSE stackFrom(seq_, stackOp(seq_, st, l[k + 1]), l, k + 1)

\* A decoder run one iteration at a time is done, and is running.
LoopsDone == pc = "done" /\ dec # <<>>
LoopsRunning == pc = "iter"

\* Run one iteration at a time, the decoders give what they give as a whole.
LoopsAgree ==
    LoopsDone =>
        result = CASE dec.fn = "cigarToList" -> cigarToList(cigar)
                   [] dec.fn = "mdzToList" -> mdzToList(md)
                   [] OTHER -> stackFrom(seq, StackStart(mdp_given), cgp, 0)

\* Every call comes to its end.
LoopsTerminate == <>LoopsDone

\* An iteration of the outer loop of cigarToList or mdzToList consumes at least
\* one character of its input, or the call fails in it.
DecoderIterConsumes ==
    (LoopsRunning /\ dec.fn \in {"cigarToList", "mdzToList"}
        /\ dec.i < Len(IF dec.fn = "cigarToList" THEN cigar ELSE md)) =>
        \/ dec'.i > dec.i /\ dec'.i <= Len(IF dec.fn = "cigarToList" THEN cigar ELSE md)
        \/ pc' = "done" /\ ~Ok(result')

\* An iteration of the M/=/X while loop decreases runleft or advances the MD:Z
\* cursor, or the call fails in it.
WhileIterProgresses ==
    (LoopsRunning /\ dec.fn = "cigarMdzToStacked" /\ dec.loop = "while"
        /\ dec.runleft > 0 /\ dec.st.mdo < Len(dec.st.mdp)) =>
        \/ dec'.runleft < dec.runleft /\ dec'.runleft >= 0
        \/ dec'.st.mdo > dec.st.mdo
        \/ pc' = "done" /\ ~Ok(result')

\* C30: cigarToList, mdzToList and cigarMdzToStacked terminate on every finite
\* input: each iteration of a decoder's outer loop consumes at least one input
\* character or fails, and each iteration of the M/=/X inner loop of
\* cigarMdzToStacked decreases the remaining run length or advances the MD:Z
\* cursor, so no input, runs of zero included, makes them loop forever.
C30_DecodersTerminate ==
    /\ LoopsTerminate
    /\ [][DecoderIterConsumes /\ WhileIterProgresses]_vars

\* C30 witness: an M of run 1 met an MD:Z match entry of run 0 and then one of
\* run 1; the while loop passed the first, took the second, and the call
\* returned.
C30_Witness ==
    /\ LoopsDone
    /\ dec.fn = "cigarMdzToStacked"
    /\ cgp = << <<0, 1>> >>
    /\ mdp_given = << <<0, 0, <<>> >>, <<0, 1, <<>> >> >>
    /\ dec.st.mdo = 2
    /\ result = Return(<< <<"A">>, <<"A">> >>)

====
